---- MODULE Spec2Model ----
(***************************************************************************)
(* Model of the OAuth credential core of pi-linear-tools:                  *)
(*   src/src/auth/token-store.js    the layered credential store           *)
(*   src/src/auth/token-refresh.js  the single-flight refresh manager,     *)
(*                                  getValidAccessToken, refreshAccessToken*)
(*   src/src/auth/callback-server.js the local listener of the OAuth       *)
(*                                  redirect, waitForCallback              *)
(*                                                                         *)
(* Execution model.  The code is single-threaded JavaScript.  One step of  *)
(* the model is one turn of the event loop: the completion of one I/O      *)
(* operation (keychain, file system, token endpoint, dynamic import)       *)
(* together with all the synchronous code and promise continuations that   *)
(* run before control returns to the event loop.  An I/O operation that    *)
(* reads or writes a backend and whose continuation touches shared state   *)
(* is split in two steps, the effect on the backend (X_Done) and the       *)
(* continuation of the awaiting code (X_Resume); other activities may run  *)
(* between the two.  The first dynamic import of keytar has no effect on   *)
(* any backend and is folded into the step that awaits it.                 *)
(***************************************************************************)
EXTENDS Integers, Sequences, FiniteSets, TLC

(***************************************************************************)
(* Bounds of the model.                                                    *)
(***************************************************************************)
NumCallers == 2      \* concurrent callers of the public functions
MaxRefresh == 2      \* refresh requests sent to the token endpoint
MaxCalls == 2        \* public function calls started in one behaviour
MaxFaults == 1       \* keychain and file operations that fail in one behaviour

Callers == 1..NumCallers
Flights == (NumCallers + 1)..(NumCallers + MaxRefresh)
Acts == Callers \cup Flights

(***************************************************************************)
(* Values.  A token string is a natural number, 0 standing for the empty   *)
(* or missing string.  expiresAt is in epoch milliseconds; an expiresAt    *)
(* that is not a number but a string of digits is the negative of the      *)
(* number the string reads as.                                             *)
(***************************************************************************)
Null == [null |-> TRUE]

TokenRecord(at, rt, exp, sc, tt) ==
  [accessToken |-> at, refreshToken |-> rt, expiresAt |-> exp, scope |-> sc, tokenType |-> tt]

\* A stored blob: nothing, a string that is not JSON, or the JSON text of an object.
NoData == [kind |-> "none"]
Garbage == [kind |-> "garbage"]
JSONstringify(obj) == [kind |-> "json", obj |-> obj]
JSONparseThrows(blob) == blob.kind # "json"
JSONparse(blob) == blob.obj

Instants == {180000, 240000}
FirstInstant == CHOOSE i \in Instants : \A j \in Instants : i <= j

DefaultBufferSeconds == 60

\* tokens.scope || [] and tokens.tokenType || 'Bearer'
ScopeOrEmpty(sc) == IF sc = "undefined" THEN "[]" ELSE sc
TypeOrBearer(tt) == IF tt \in {"undefined", ""} THEN "Bearer" ELSE tt

normalizeTokens(tokens) ==
  IF tokens = Null \/ tokens.accessToken = 0 \/ tokens.refreshToken = 0 \/ tokens.expiresAt = 0
  THEN Null
  ELSE TokenRecord(tokens.accessToken, tokens.refreshToken, tokens.expiresAt,
                   ScopeOrEmpty(tokens.scope), TypeOrBearer(tokens.tokenType))

(***************************************************************************)
(* parseInt(s, 10) on a string given as a sequence of characters: leading  *)
(* blanks are skipped, a sign is optional, the longest prefix of digits is *)
(* the value, and no digit at all yields NaN.                              *)
(***************************************************************************)
Digits == <<"0", "1", "2", "3", "4", "5", "6", "7", "8", "9">>
IsDigit(c) == \E i \in 1..10 : Digits[i] = c
DigitVal(c) == (CHOOSE i \in 1..10 : Digits[i] = c) - 1

RECURSIVE SkipBlanks(_)
SkipBlanks(s) == IF s # <<>> /\ Head(s) = " " THEN SkipBlanks(Tail(s)) ELSE s

\* The largest number of the model.  Every number above it is held as
\* TimeValueLimit + 1, which stands for a number above 8.64e15, the largest time
\* value of a Date; the inputs hold no number between the two.
TimeValueLimit == 100000000
Saturated(n) == IF n > TimeValueLimit THEN TimeValueLimit + 1 ELSE n

\* new Date(t).toISOString() throws RangeError for a time value out of range.
toISOStringThrows(t) == t > TimeValueLimit \/ t < 0 - TimeValueLimit

RECURSIVE DigitsValue(_, _)
DigitsValue(s, acc) ==
  IF s # <<>> /\ IsDigit(Head(s))
  THEN DigitsValue(Tail(s), Saturated(acc * 10 + DigitVal(Head(s))))
  ELSE acc

parseInt(str) ==
  LET s == SkipBlanks(str)
      neg == s # <<>> /\ Head(s) = "-"
      body == IF s # <<>> /\ Head(s) \in {"-", "+"} THEN Tail(s) ELSE s
  IN IF body = <<>> \/ ~IsDigit(Head(body))
     THEN [nan |-> TRUE, val |-> 0]
     ELSE [nan |-> FALSE, val |-> IF neg THEN 0 - DigitsValue(body, 0) ELSE DigitsValue(body, 0)]

getTokensFromEnv(e) ==
  IF e.LINEAR_ACCESS_TOKEN = 0 \/ e.LINEAR_REFRESH_TOKEN = 0 \/ e.LINEAR_EXPIRES_AT = <<>>
  THEN Null
  ELSE LET expiresAt == parseInt(e.LINEAR_EXPIRES_AT)
       IN IF expiresAt.nan THEN Null
          ELSE TokenRecord(e.LINEAR_ACCESS_TOKEN, e.LINEAR_REFRESH_TOKEN, expiresAt.val,
                           "[read,issues:create,comments:create]", "Bearer")


(***************************************************************************)
(* The token endpoint's answers to a refresh request, and                  *)
(* refreshAccessToken's reading of them.                                   *)
(***************************************************************************)
Response(transport, ok, error, at, rt, expiresIn) ==
  [transport |-> transport, ok |-> ok, error |-> error, access_token |-> at,
   refresh_token |-> rt, expires_in |-> expiresIn, scope |-> "read", token_type |-> ""]

\* The answers to the k-th request: fetch rejects; 400 invalid_grant; 500; 200 with
\* all fields; 200 without refresh_token.
Responses(k) ==
  { Response(FALSE, FALSE, "", 0, 0, 0),
    Response(TRUE, FALSE, "invalid_grant", 0, 0, 0),
    Response(TRUE, FALSE, "server_error", 0, 0, 0),
    Response(TRUE, TRUE, "", 10 + k, 10 + k, 120),
    Response(TRUE, TRUE, "", 10 + k, 0, 120) }

\* The message of the Error thrown, "" when the data is returned.
refreshAccessToken(resp) ==
  IF ~resp.transport THEN "fetch failed"
  ELSE IF ~resp.ok
       THEN IF resp.error = "invalid_grant" THEN "invalid_grant" ELSE "Token refresh failed"
       ELSE IF resp.access_token = 0 THEN "Refresh response missing access_token"
       ELSE IF resp.refresh_token = 0 THEN "Refresh response missing refresh_token"
       ELSE IF resp.expires_in = 0 THEN "Refresh response missing expires_in"
       ELSE ""

\* error.message.includes('invalid_grant')
IncludesInvalidGrant(message) == message = "invalid_grant"

(***************************************************************************)
(* State.                                                                  *)
(***************************************************************************)
VARIABLES
  inMemoryTokens,   \* token-store.js: the module-level cache (a JSON string or null)
  keytarModule,     \* token-store.js: "null" (not probed), "false" or "module"
  keychain,         \* the OS keychain entry pi-linear-tools / linear-oauth-tokens
  tokenFile,        \* the fallback file oauth-tokens.json
  env,              \* process.env: the three LINEAR_* variables
  keytarInstalled,  \* whether import('keytar') succeeds in this installation
  now,              \* Date.now()
  manager,          \* the singleton TokenRefreshManager: isRefreshing, refreshPromise
  promise,          \* the state of the promise of each refresh started
  requests,         \* history: the refresh tokens sent to the token endpoint, in order
  pc,               \* where each caller and each refresh stands
  loc,              \* the local variables of each caller and each refresh
  calls,            \* history: the number of public calls started
  overlap,          \* history: the callers whose call overlapped each caller's call
  faults,           \* history: the number of failed keychain and file operations
  lastWrite,        \* history: the activity that last wrote or purged each backend
  server,           \* callback-server.js: the http server of waitForCallback
  timeoutId,        \* callback-server.js: the timer of waitForCallback
  callback,         \* the promise waitForCallback returned
  httpReq,          \* the last request the server handled
  httpRes,          \* the response to it, and what the handler did to the promise
  served,           \* history: the number of requests handled
  manual,           \* auth/index.js: manualPromise of authenticate, and (history) the input
  exchanges,        \* history: the authorization codes sent to the token endpoint
  aborted,          \* auth/index.js: abortController.signal.aborted
  revocations,      \* oauth.js: the calls of revokeToken, and (history) what each logged
  issueStart        \* handlers.js: the call of executeIssueStart, with its history

storeVars == <<inMemoryTokens, keytarModule, keychain, tokenFile, lastWrite>>
ctlVars == <<manager, promise, requests, pc, loc>>
envVars == <<env, keytarInstalled>>
listenerVars == <<server, timeoutId, callback, httpReq, httpRes, served>>
loginVars == <<manual, exchanges, aborted>>
auxVars == <<revocations, issueStart>>
vars == <<inMemoryTokens, keytarModule, keychain, tokenFile, env, keytarInstalled, now,
          manager, promise, requests, pc, loc, calls, overlap, faults, lastWrite,
          server, timeoutId, callback, httpReq, httpRes, served,
          manual, exchanges, aborted, revocations, issueStart>>

NoResult == [kind |-> "none", token |-> 0, err |-> "", rec |-> Null]
TokenResult(t) == [kind |-> "token", token |-> t, err |-> "", rec |-> Null]
NullResult == [kind |-> "null", token |-> 0, err |-> "", rec |-> Null]
ErrorResult(m) == [kind |-> "error", token |-> 0, err |-> m, rec |-> Null]
RecordResult(r) == [kind |-> "record", token |-> 0, err |-> "", rec |-> r]
VoidResult == [kind |-> "void", token |-> 0, err |-> "", rec |-> Null]
BoolResult(b) == [kind |-> IF b THEN "true" ELSE "false", token |-> 0, err |-> "", rec |-> Null]

\* The locals of an activity that runs the function op.  These are history fields:
\* wrote (the backends the activity changed), purged and purgeFail (the backends its
\* clearTokens purged and failed to purge), readFail (a read of a backend failed), src and got (the source getTokens
\* answered from, and its answer), nowRead (the Date.now() getValidAccessToken read),
\* expired (getValidAccessToken went on to refresh), persisted (the backend storeTokens
\* wrote the record to), sent (the requests a refresh sent), expect and arg (the
\* record storeTokens was called with), before (the cache, the keychain entry and
\* the fallback file when authenticate began), won (the branch whose result
\* authenticate took) and code (the authorization code it exchanged).  options are
\* the options authenticate was called with.
Locals(op) ==
  [op |-> op, getRet |-> "", clearRet |-> "", storeRet |-> "", refreshRet |-> "",
   data |-> NoData, ioerr |-> FALSE, storeErr |-> "", awaited |-> 0, rt |-> 0,
   newAccess |-> 0, err |-> "", result |-> NoResult,
   wrote |-> {}, purged |-> {}, purgeFail |-> {}, readFail |-> FALSE, src |-> "", got |-> Null,
   nowRead |-> 0, expired |-> FALSE, persisted |-> "", sent |-> 0, expect |-> Null,
   arg |-> Null,
   options |-> [openBrowser |-> FALSE, manualCodeInput |-> FALSE],
   before |-> <<NoData, NoData, NoData>>, won |-> "", code |-> ""]

OldRecords ==
  { TokenRecord(1, 1, 60000, "[read]", "Bearer"),      \* expired at every instant
    TokenRecord(1, 1, 300000, "[read]", "Bearer") }    \* needs a refresh at 240000
InvalidObject == TokenRecord(1, 0, 300000, "[read]", "Bearer")
PersistedBlobs == {NoData, Garbage, JSONstringify(InvalidObject)}
                    \cup {JSONstringify(r) : r \in OldRecords}

EnvOf(at, rt, exp) ==
  [LINEAR_ACCESS_TOKEN |-> at, LINEAR_REFRESH_TOKEN |-> rt, LINEAR_EXPIRES_AT |-> exp]
Environments ==
  { EnvOf(0, 0, <<>>),
    EnvOf(2, 2, <<"3", "0", "0", "0", "0", "0">>),
    EnvOf(2, 2, <<"0">>),
    EnvOf(2, 2, <<"s", "o", "o", "n">>) }

InitIn(environments) ==
  /\ inMemoryTokens = NoData
  /\ keytarModule = "null"
  /\ keytarInstalled \in BOOLEAN
  /\ keychain \in (IF keytarInstalled THEN PersistedBlobs ELSE {NoData})
  /\ tokenFile \in PersistedBlobs
  /\ env \in environments
  /\ now = FirstInstant
  /\ manager = [isRefreshing |-> FALSE, refreshPromise |-> 0]
  /\ promise = [p \in Flights |-> [state |-> "none", token |-> 0, err |-> ""]]
  /\ requests = <<>>
  /\ pc = [a \in Acts |-> IF a \in Callers THEN "idle" ELSE "unused"]
  /\ loc = [a \in Acts |-> Locals("")]
  /\ calls = 0
  /\ overlap = [c \in Callers |-> {}]
  /\ faults = 0
  /\ lastWrite = [keychain |-> 0, file |-> 0]
  /\ server = "none"
  /\ timeoutId = "none"
  /\ callback = [state |-> "none", code |-> "", cbstate |-> "", message |-> ""]
  /\ httpReq = [path |-> "", error |-> [present |-> FALSE, value |-> ""],
                error_description |-> [present |-> FALSE, value |-> ""],
            code |-> [present |-> FALSE, value |-> ""],
            state |-> [present |-> FALSE, value |-> ""]]
  /\ httpRes = [status |-> 0, settle |-> "none", code |-> "", cbstate |-> "", message |-> ""]
  /\ served = 0
  /\ manual = [state |-> "none", code |-> "", cbstate |-> "", message |-> "",
               raw |-> [text |-> "", scheme |-> "", wellFormed |-> TRUE, pairs |-> <<>>]]
  /\ exchanges = <<>>
  /\ aborted = FALSE
  /\ revocations = <<>>
  /\ issueStart = [pc |-> "idle",
                   params |-> [issue |-> "", branch |-> "", fromRef |-> "", onBranchExists |-> ""],
                   gitExecutor |-> FALSE, branchName |-> "", handed |-> "", fromRef |-> "",
                   onBranchExists |-> "", suffix |-> 0, checkout |-> "", git |-> <<"", "">>,
                   stateChanges |-> 0, error |-> ""]

Init == InitIn(Environments)


(***************************************************************************)
(* Control: what a continuation does to the program counters, the locals,  *)
(* the refresh manager and the promises.                                   *)
(***************************************************************************)
Goto(a, l, label) ==
  /\ pc' = [pc EXCEPT ![a] = label]
  /\ loc' = [loc EXCEPT ![a] = l]
  /\ UNCHANGED <<manager, promise, requests>>

\* What is kept of the locals of an activity that has ended: the history fields.
Ended(l) ==
  [Locals(l.op) EXCEPT !.awaited = l.awaited, !.rt = l.rt, !.err = l.err, !.result = l.result,
                       !.wrote = l.wrote, !.purged = l.purged, !.purgeFail = l.purgeFail, !.readFail = l.readFail,
                       !.src = l.src, !.got = l.got, !.nowRead = l.nowRead,
                       !.expired = l.expired, !.persisted = l.persisted, !.sent = l.sent,
                       !.expect = l.expect, !.arg = l.arg, !.options = l.options,
                       !.before = l.before, !.won = l.won, !.code = l.code]

\* The public call of caller a returns (or throws) res.
Finish(a, l, res) == Goto(a, Ended([l EXCEPT !.result = res]), "idle")

\* The outcomes of a keychain or file operation: it succeeds, or (while the budget
\* of failures lasts) it fails.
Outcomes == IF faults < MaxFaults THEN BOOLEAN ELSE {TRUE}
Faults(ok) == IF ok THEN faults ELSE faults + 1

\* isKeytarAvailable(): the cached answer, or the outcome of import('keytar').
KeytarAfterProbe ==
  IF keytarModule # "null" THEN keytarModule
  ELSE IF keytarInstalled THEN "module" ELSE "false"
useKeytar == KeytarAfterProbe = "module"

\* A refresh that does not look at the lock: every call starts a refresh of its own.
refreshUnlocked(a, l, refreshToken, lab) ==
  LET p == NumCallers + Len(requests) + 1 IN
  /\ Len(requests) < MaxRefresh
  /\ manager' = [isRefreshing |-> TRUE, refreshPromise |-> p]
  /\ promise' = [promise EXCEPT ![p] = [state |-> "pending", token |-> 0, err |-> ""]]
  /\ requests' = Append(requests, refreshToken)
  /\ pc' = [pc EXCEPT ![a] = "await_refresh", ![p] = "rf_fetch"]
  /\ loc' = [loc EXCEPT ![a] = [l EXCEPT !.awaited = p, !.refreshRet = lab, !.rt = refreshToken],
                        ![p] = [Locals("refresh") EXCEPT !.rt = refreshToken, !.sent = 1]]

\* TokenRefreshManager.refresh, up to its first await: join the refresh in progress,
\* or take the lock and start the IIFE, which sends the request to the token endpoint.
refresh(a, l, refreshToken, lab) ==
  IF manager.isRefreshing /\ manager.refreshPromise # 0
  THEN Goto(a, [l EXCEPT !.awaited = manager.refreshPromise, !.refreshRet = lab,
                         !.rt = refreshToken],
            "await_refresh")
  ELSE LET p == NumCallers + Len(requests) + 1 IN
       /\ Len(requests) < MaxRefresh
       /\ manager' = [isRefreshing |-> TRUE, refreshPromise |-> p]
       /\ promise' = [promise EXCEPT ![p] = [state |-> "pending", token |-> 0, err |-> ""]]
       /\ requests' = Append(requests, refreshToken)
       /\ pc' = [pc EXCEPT ![a] = "await_refresh", ![p] = "rf_fetch"]
       /\ loc' = [loc EXCEPT ![a] = [l EXCEPT !.awaited = p, !.refreshRet = lab,
                                                !.rt = refreshToken],
                             ![p] = [Locals("refresh") EXCEPT !.rt = refreshToken, !.sent = 1]]

\* What a caller awaiting the refresh promise does when it settles: refreshTokens
\* passes the outcome on, getValidAccessToken turns a rejection into null.
AfterRefresh(l, state, token, message) ==
  IF state = "fulfilled" THEN Ended([l EXCEPT !.result = TokenResult(token)])
  ELSE IF l.refreshRet = "gvat" THEN Ended([l EXCEPT !.result = NullResult])
  ELSE Ended([l EXCEPT !.result = ErrorResult(message)])

\* The finally block of the IIFE.
ReleasedLock == [isRefreshing |-> FALSE, refreshPromise |-> 0]

\* An IIFE without the finally block: the lock is released on success only.
SettleWithoutFinally(p, l, state, token, message) ==
  LET waits(a) == a \in Callers /\ pc[a] = "await_refresh" /\ loc[a].awaited = p IN
  /\ manager' = IF state = "fulfilled" THEN ReleasedLock ELSE manager
  /\ promise' = [promise EXCEPT ![p] = [state |-> state, token |-> token, err |-> message]]
  /\ pc' = [a \in Acts |-> IF a = p THEN "settled" ELSE IF waits(a) THEN "idle" ELSE pc[a]]
  /\ loc' = [a \in Acts |-> IF a = p THEN Ended(l)
                            ELSE IF waits(a) THEN AfterRefresh(loc[a], state, token, message)
                            ELSE loc[a]]
  /\ UNCHANGED requests

\* The IIFE of refresh p ends: finally, then the promise settles and every caller
\* awaiting it resumes.
Settle(p, l, state, token, message) ==
  LET waits(a) == a \in Callers /\ pc[a] = "await_refresh" /\ loc[a].awaited = p IN
  /\ manager' = ReleasedLock
  /\ promise' = [promise EXCEPT ![p] = [state |-> state, token |-> token, err |-> message]]
  /\ pc' = [a \in Acts |-> IF a = p THEN "settled" ELSE IF waits(a) THEN "idle" ELSE pc[a]]
  /\ loc' = [a \in Acts |-> IF a = p THEN Ended(l)
                            ELSE IF waits(a) THEN AfterRefresh(loc[a], state, token, message)
                            ELSE loc[a]]
  /\ UNCHANGED requests

\* A getValidAccessToken with the expiry test inverted.
getValidAccessTokenInverted(a, l, tokens) ==
  IF tokens = Null THEN Finish(a, l, NullResult)
  ELSE IF now >= tokens.expiresAt - DefaultBufferSeconds * 1000
       THEN Finish(a, [l EXCEPT !.nowRead = now], TokenResult(tokens.accessToken))
       ELSE refresh(a, [l EXCEPT !.nowRead = now, !.expired = TRUE], tokens.refreshToken, "gvat")

\* getValidAccessToken after `await getTokensFn()`.  Both branches log
\* new Date(expiresAt).toISOString() before they return or refresh.
getValidAccessToken(a, l, tokens) ==
  IF tokens = Null THEN Finish(a, l, NullResult)
  ELSE IF toISOStringThrows(tokens.expiresAt)
       THEN Finish(a, [l EXCEPT !.nowRead = now], ErrorResult("RangeError: Invalid time value"))
  ELSE IF now < tokens.expiresAt - DefaultBufferSeconds * 1000
       THEN Finish(a, [l EXCEPT !.nowRead = now], TokenResult(tokens.accessToken))
       ELSE refresh(a, [l EXCEPT !.nowRead = now, !.expired = TRUE], tokens.refreshToken, "gvat")

\* hasValidTokens after `await getTokens()`.  The branch of an expired token logs
\* new Date(expiresAt).toISOString().
hasValidTokens(a, l, tokens) ==
  IF tokens = Null THEN Finish(a, l, BoolResult(FALSE))
  ELSE LET isExpired == now >= tokens.expiresAt - 60000 IN
       IF isExpired /\ toISOStringThrows(tokens.expiresAt)
       THEN Finish(a, [l EXCEPT !.nowRead = now, !.expired = isExpired],
                   ErrorResult("RangeError: Invalid time value"))
       ELSE Finish(a, [l EXCEPT !.nowRead = now, !.expired = isExpired], BoolResult(~isExpired))

\* getTokens returns tokens (or null) to the code that awaits it.
GetReturn(a, l, tokens) ==
  IF l.getRet = "gvat" THEN getValidAccessToken(a, [l EXCEPT !.got = tokens], tokens)
  ELSE IF l.getRet = "hvt" THEN hasValidTokens(a, [l EXCEPT !.got = tokens], tokens)
  ELSE Finish(a, [l EXCEPT !.got = tokens],
              IF tokens = Null THEN NullResult ELSE RecordResult(tokens))

\* authenticate() up to its first await: waitForCallback has started the timer,
\* created the server and issued listen, and the opening of the browser is awaited.
\* mem is the cache at this point.  The logins of the model pass no
\* onAuthorizationUrl.
authenticateBegin(a, l, mem) ==
  /\ server' = "starting"
  /\ timeoutId' = "armed"
  /\ callback' = [callback EXCEPT !.state = "pending"]
  /\ UNCHANGED <<httpReq, httpRes, served, loginVars>>
  /\ Goto(a, [l EXCEPT !.before = <<mem, keychain, tokenFile>>], "au_open")

\* clearTokens, after isKeytarAvailable: the first purge is issued.
ClearGoto(a, l, lab) ==
  Goto(a, [l EXCEPT !.clearRet = lab], IF useKeytar THEN "ct_deletePassword" ELSE "ct_unlink")

\* A catch block that does not rethrow after clearTokens: the promise is fulfilled
\* with undefined.
ClearReturnSwallows(a, l) ==
  IF l.clearRet = "ra_logout" THEN authenticateBegin(a, l, NoData)
  ELSE /\ UNCHANGED <<listenerVars, loginVars>>
       /\ IF l.clearRet = "gt_clear" THEN GetReturn(a, l, Null)
          ELSE IF l.clearRet = "rf_clear" THEN Settle(a, l, "fulfilled", 0, "")
          ELSE Finish(a, l, VoidResult)

\* clearTokens returns to the code that awaits it.  reAuthenticate goes on from
\* logout() into authenticate().
ClearReturn(a, l) ==
  IF l.clearRet = "ra_logout" THEN authenticateBegin(a, l, NoData)
  ELSE /\ UNCHANGED <<listenerVars, loginVars>>
       /\ IF l.clearRet = "gt_clear" THEN GetReturn(a, l, Null)
          ELSE IF l.clearRet = "rf_clear" THEN Settle(a, l, "rejected", 0, l.err)
          ELSE Finish(a, l, VoidResult)

\* A catch block that never clears the store.
catchBlockKeeps(p, l, message) ==
  Settle(p, [l EXCEPT !.err = message], "rejected", 0, message)

\* A catch block that clears the store on every error.
catchBlockClearsAlways(p, l, message) ==
  ClearGoto(p, [l EXCEPT !.err = message], "rf_clear")

\* The catch block of the IIFE.
catchBlock(p, l, message) ==
  IF IncludesInvalidGrant(message)
  THEN ClearGoto(p, [l EXCEPT !.err = message], "rf_clear")
  ELSE Settle(p, [l EXCEPT !.err = message], "rejected", 0, message)

\* storeTokens returns, or throws the Error with this message, to the code that awaits it.
StoreReturn(a, l, message) ==
  IF l.storeRet = "rf_store"
  THEN IF message = "" THEN Settle(a, l, "fulfilled", l.newAccess, "")
       ELSE catchBlock(a, l, message)
  ELSE IF l.storeRet = "au_store"
  THEN Finish(a, l, IF message = "" THEN RecordResult(l.arg) ELSE ErrorResult(message))
  ELSE Finish(a, l, IF message = "" THEN VoidResult ELSE ErrorResult(message))


(***************************************************************************)
(* token-store.js: storeTokens.                                            *)
(***************************************************************************)
\* The validation of storeTokens: the message of the Error thrown, "" when none is.
\* typeof expiresAt === 'number'
TypeofNumber(expiresAt) == expiresAt >= 0

\* A validation that does not look at the type of expiresAt.
storeTokensMessageUntyped(tokens) ==
  IF tokens.accessToken = 0 THEN "Missing accessToken in token record"
  ELSE IF tokens.refreshToken = 0 THEN "Missing refreshToken in token record"
  ELSE IF tokens.expiresAt = 0 THEN "Missing or invalid expiresAt in token record"
  ELSE ""

\* The validation of storeTokens: the message of the Error thrown, "" when the
\* record passes.
storeTokensMessage(tokens) ==
  IF tokens.accessToken = 0 THEN "Missing accessToken in token record"
  ELSE IF tokens.refreshToken = 0 THEN "Missing refreshToken in token record"
  ELSE IF tokens.expiresAt = 0 \/ ~TypeofNumber(tokens.expiresAt)
  THEN "Missing or invalid expiresAt in token record"
  ELSE ""

\* The JSON text storeTokens writes.
tokenDataOf(tokens) ==
  JSONstringify(TokenRecord(tokens.accessToken, tokens.refreshToken, tokens.expiresAt,
                            ScopeOrEmpty(tokens.scope), TypeOrBearer(tokens.tokenType)))

Changed(name, old, new) == IF old # new THEN {name} ELSE {}

\* A storeTokens that does not update the cache.
StoreBeginUncached(a, l, tokens, lab) ==
  LET message == storeTokensMessage(tokens)
      tokenData == tokenDataOf(tokens)
      l1 == [l EXCEPT !.storeRet = lab, !.storeErr = ""]
  IN /\ keytarModule' = KeytarAfterProbe
     /\ UNCHANGED <<inMemoryTokens, keychain, tokenFile, lastWrite>>
     /\ IF message # ""
        THEN StoreReturn(a, l1, message)
        ELSE Goto(a, [l1 EXCEPT !.data = tokenData],
                  IF useKeytar THEN "st_setPassword" ELSE "st_writeFile")

\* storeTokens up to its first I/O: probe keytar, validate, update the cache, then
\* issue setPassword or the write of the fallback file.
StoreBegin(a, l, tokens, lab) ==
  LET message == storeTokensMessage(tokens)
      tokenData == tokenDataOf(tokens)
      l1 == [l EXCEPT !.storeRet = lab, !.storeErr = ""]
  IN /\ keytarModule' = KeytarAfterProbe
     /\ UNCHANGED <<keychain, tokenFile, lastWrite>>
     /\ IF message # ""
        THEN /\ UNCHANGED inMemoryTokens
             /\ StoreReturn(a, l1, message)
        ELSE /\ inMemoryTokens' = tokenData
             /\ Goto(a, [l1 EXCEPT !.data = tokenData,
                                   !.wrote = @ \cup Changed("memory", inMemoryTokens, tokenData)],
                     IF useKeytar THEN "st_setPassword" ELSE "st_writeFile")

\* A setPassword whose failure is swallowed: the fallback file is not written.
SetPasswordDoneNoFallback(a) ==
  /\ pc[a] = "st_setPassword"
  /\ \E ok \in Outcomes :
       LET entry == IF ok THEN loc[a].data ELSE keychain IN
       /\ faults' = Faults(ok)
       /\ lastWrite' = IF ok THEN [lastWrite EXCEPT !.keychain = a] ELSE lastWrite
       /\ keychain' = entry
       /\ Goto(a, [loc[a] EXCEPT !.wrote = @ \cup Changed("keychain", keychain, entry),
                                 !.persisted = IF ok THEN "keychain" ELSE @],
               IF ok THEN "st_unlink" ELSE "st_done")
  /\ UNCHANGED <<inMemoryTokens, keytarModule, tokenFile, env, keytarInstalled, listenerVars, loginVars, auxVars, now, calls, overlap>>

\* keytar.setPassword completes: the entry is written and the unlink of the fallback
\* file is issued, or (it threw or returned false) the write of the fallback file is.
SetPasswordDone(a) ==
  /\ pc[a] = "st_setPassword"
  /\ \E ok \in Outcomes :
       LET entry == IF ok THEN loc[a].data ELSE keychain IN
       /\ faults' = Faults(ok)
       /\ lastWrite' = IF ok THEN [lastWrite EXCEPT !.keychain = a] ELSE lastWrite
       /\ keychain' = entry
       /\ Goto(a, [loc[a] EXCEPT !.wrote = @ \cup Changed("keychain", keychain, entry),
                                 !.persisted = IF ok THEN "keychain" ELSE @],
               IF ok THEN "st_unlink" ELSE "st_writeFile")
  /\ UNCHANGED <<inMemoryTokens, keytarModule, tokenFile, env, keytarInstalled, listenerVars, loginVars, auxVars, now, calls, overlap>>

\* unlink(getTokenFilePath()).catch(() => {}) of storeTokens completes.
StoreUnlinkDone(a) ==
  /\ pc[a] = "st_unlink"
  /\ \E ok \in Outcomes :
       LET file == IF ok THEN NoData ELSE tokenFile IN
       /\ faults' = Faults(ok)
       /\ lastWrite' = IF ok THEN [lastWrite EXCEPT !.file = a] ELSE lastWrite
       /\ tokenFile' = file
       /\ Goto(a, [loc[a] EXCEPT !.wrote = @ \cup Changed("file", tokenFile, file)], "st_done")
  /\ UNCHANGED <<inMemoryTokens, keytarModule, keychain, env, keytarInstalled, listenerVars, loginVars, auxVars, now, calls, overlap>>

\* writeTokensToFile completes (mkdir and writeFile), or throws.
WriteFileDone(a) ==
  /\ pc[a] = "st_writeFile"
  /\ \E ok \in Outcomes :
       LET file == IF ok THEN loc[a].data ELSE tokenFile IN
       /\ faults' = Faults(ok)
       /\ lastWrite' = IF ok THEN [lastWrite EXCEPT !.file = a] ELSE lastWrite
       /\ tokenFile' = file
       /\ Goto(a, [loc[a] EXCEPT !.wrote = @ \cup Changed("file", tokenFile, file),
                                 !.persisted = IF ok THEN "file" ELSE @,
                                 !.storeErr = IF ok THEN "" ELSE "EACCES: permission denied"],
               "st_done")
  /\ UNCHANGED <<inMemoryTokens, keytarModule, keychain, env, keytarInstalled, listenerVars, loginVars, auxVars, now, calls, overlap>>

\* The code awaiting storeTokens resumes.
StoreResume(a) ==
  /\ pc[a] = "st_done"
  /\ StoreReturn(a, loc[a], loc[a].storeErr)
  /\ UNCHANGED <<storeVars, env, keytarInstalled, listenerVars, loginVars, auxVars, now, calls, overlap, faults>>

(***************************************************************************)
(* token-store.js: clearTokens.                                            *)
(***************************************************************************)
\* A deletePassword whose failure is not caught: clearTokens throws.
DeletePasswordDoneThrows(a) ==
  /\ pc[a] = "ct_deletePassword"
  /\ \E ok \in Outcomes :
       /\ faults' = Faults(ok)
       /\ lastWrite' = IF ok THEN [lastWrite EXCEPT !.keychain = a] ELSE lastWrite
       /\ keychain' = IF ok THEN NoData ELSE keychain
       /\ IF ok THEN Goto(a, [loc[a] EXCEPT !.purged = @ \cup {"keychain"}], "ct_unlink")
                ELSE Finish(a, [loc[a] EXCEPT !.purgeFail = @ \cup {"keychain"}],
                            ErrorResult("keytar.deletePassword failed"))
  /\ UNCHANGED <<inMemoryTokens, keytarModule, tokenFile, env, keytarInstalled, listenerVars, loginVars, auxVars, now, calls, overlap>>

\* keytar.deletePassword completes or throws; the unlink of the fallback file is issued.
DeletePasswordDone(a) ==
  /\ pc[a] = "ct_deletePassword"
  /\ \E ok \in Outcomes :
       LET entry == IF ok THEN NoData ELSE keychain IN
       /\ faults' = Faults(ok)
       /\ lastWrite' = IF ok THEN [lastWrite EXCEPT !.keychain = a] ELSE lastWrite
       /\ keychain' = entry
       /\ Goto(a, [loc[a] EXCEPT !.wrote = @ \cup Changed("keychain", keychain, entry),
                                 !.purged = @ \cup (IF ok THEN {"keychain"} ELSE {}),
                                 !.purgeFail = @ \cup (IF ok THEN {} ELSE {"keychain"})],
               "ct_unlink")
  /\ UNCHANGED <<inMemoryTokens, keytarModule, tokenFile, env, keytarInstalled, listenerVars, loginVars, auxVars, now, calls, overlap>>

\* unlink(getTokenFilePath()).catch(() => {}) of clearTokens completes.
ClearUnlinkDone(a) ==
  /\ pc[a] = "ct_unlink"
  /\ \E ok \in Outcomes :
       LET file == IF ok THEN NoData ELSE tokenFile IN
       /\ faults' = Faults(ok)
       /\ lastWrite' = IF ok THEN [lastWrite EXCEPT !.file = a] ELSE lastWrite
       /\ tokenFile' = file
       /\ Goto(a, [loc[a] EXCEPT !.wrote = @ \cup Changed("file", tokenFile, file),
                                 !.purged = @ \cup (IF ok THEN {"file"} ELSE {}),
                                 !.purgeFail = @ \cup (IF ok THEN {} ELSE {"file"})],
               "ct_unlink_done")
  /\ UNCHANGED <<inMemoryTokens, keytarModule, keychain, env, keytarInstalled, listenerVars, loginVars, auxVars, now, calls, overlap>>

\* clearTokens resumes after the unlink: the cache is cleared and clearTokens returns.
ClearResume(a) ==
  /\ pc[a] = "ct_unlink_done"
  /\ inMemoryTokens' = NoData
  /\ ClearReturn(a, [loc[a] EXCEPT !.wrote = @ \cup Changed("memory", inMemoryTokens, NoData),
                                    !.purged = @ \cup {"memory"}])
  /\ UNCHANGED <<keytarModule, keychain, tokenFile, lastWrite, env, keytarInstalled, auxVars, now, calls,
               overlap, faults>>

(***************************************************************************)
(* token-store.js: getTokens and readTokensFromFile.                       *)
(***************************************************************************)
IsValidBlob(blob) ==
  blob # NoData /\ ~JSONparseThrows(blob) /\ normalizeTokens(JSONparse(blob)) # Null

\* getTokens up to its first I/O: the cache, then the environment, then the probe of
\* keytar and the read of the keychain or of the fallback file is issued.
GetBegin(a, l, lab) ==
  LET l1 == [l EXCEPT !.getRet = lab]
      envTokens == getTokensFromEnv(env)
  IN IF IsValidBlob(inMemoryTokens)
     THEN /\ GetReturn(a, [l1 EXCEPT !.src = "memory"], normalizeTokens(JSONparse(inMemoryTokens)))
          /\ UNCHANGED storeVars
     ELSE LET l2 == [l1 EXCEPT !.wrote = @ \cup Changed("memory", inMemoryTokens, NoData)] IN
          /\ inMemoryTokens' = NoData
          /\ UNCHANGED <<keychain, tokenFile, lastWrite>>
          /\ IF envTokens # Null
             THEN /\ GetReturn(a, [l2 EXCEPT !.src = "env"], envTokens)
                  /\ UNCHANGED keytarModule
             ELSE /\ keytarModule' = KeytarAfterProbe
                  /\ Goto(a, l2, IF useKeytar THEN "gt_getPassword" ELSE "gt_readFile")

\* keytar.getPassword completes with the entry, or throws.
GetPasswordDone(a) ==
  /\ pc[a] = "gt_getPassword"
  /\ \E ok \in Outcomes :
       /\ faults' = Faults(ok)
       /\ Goto(a, [loc[a] EXCEPT !.data = IF ok THEN keychain ELSE NoData, !.ioerr = ~ok,
                                 !.readFail = @ \/ ~ok],
               "gt_getPassword_done")
  /\ UNCHANGED <<storeVars, env, keytarInstalled, listenerVars, loginVars, auxVars, now, calls, overlap>>

\* getTokens resumes after getPassword.
GetPasswordResume(a) ==
  /\ pc[a] = "gt_getPassword_done"
  /\ LET l == loc[a]
         tokenData == l.data
     IN IF l.ioerr \/ tokenData = NoData \/ JSONparseThrows(tokenData)
        THEN Goto(a, l, "gt_readFile")
        ELSE LET tokens == normalizeTokens(JSONparse(tokenData)) IN
             IF tokens = Null
             THEN ClearGoto(a, l, "gt_clear")
             ELSE GetReturn(a, [l EXCEPT !.src = "keychain"], tokens)
  /\ UNCHANGED <<storeVars, env, keytarInstalled, listenerVars, loginVars, auxVars, now, calls, overlap, faults>>

\* readFile of readTokensFromFile completes with the content, or throws.
ReadFileDone(a) ==
  /\ pc[a] = "gt_readFile"
  /\ \E ok \in Outcomes :
       /\ faults' = Faults(ok)
       /\ Goto(a, [loc[a] EXCEPT !.data = IF ok THEN tokenFile ELSE NoData, !.ioerr = ~ok,
                                 !.readFail = @ \/ ~ok],
               "gt_readFile_done")
  /\ UNCHANGED <<storeVars, env, keytarInstalled, listenerVars, loginVars, auxVars, now, calls, overlap>>

\* readTokensFromFile resumes after readFile, and getTokens after it.
ReadFileResume(a) ==
  /\ pc[a] = "gt_readFile_done"
  /\ LET l == loc[a]
         content == l.data
     IN IF l.ioerr \/ content = NoData \/ JSONparseThrows(content)
        THEN /\ GetReturn(a, l, Null)
             /\ UNCHANGED inMemoryTokens
        ELSE LET fileTokens == normalizeTokens(JSONparse(content)) IN
             IF fileTokens = Null
             THEN /\ Goto(a, l, "gt_unlink")
                  /\ UNCHANGED inMemoryTokens
             ELSE /\ inMemoryTokens' = JSONstringify(fileTokens)
                  /\ GetReturn(a, [l EXCEPT !.src = "file",
                                            !.wrote = @ \cup Changed("memory", inMemoryTokens,
                                                                     JSONstringify(fileTokens))],
                               fileTokens)
  /\ UNCHANGED <<keytarModule, keychain, tokenFile, lastWrite, env, keytarInstalled, listenerVars, loginVars, auxVars, now, calls, overlap,
               faults>>

\* The unlink of an invalid fallback file completes; readTokensFromFile returns null.
ReadUnlinkDone(a) ==
  /\ pc[a] = "gt_unlink"
  /\ \E ok \in Outcomes :
       LET file == IF ok THEN NoData ELSE tokenFile IN
       /\ faults' = Faults(ok)
       /\ lastWrite' = IF ok THEN [lastWrite EXCEPT !.file = a] ELSE lastWrite
       /\ tokenFile' = file
       /\ GetReturn(a, [loc[a] EXCEPT !.wrote = @ \cup Changed("file", tokenFile, file)], Null)
  /\ UNCHANGED <<inMemoryTokens, keytarModule, keychain, env, keytarInstalled, listenerVars, loginVars, auxVars, now, calls, overlap>>

(***************************************************************************)
(* token-refresh.js: the IIFE of TokenRefreshManager.refresh.              *)
(***************************************************************************)
\* tokenResponse.scope ? tokenResponse.scope.split(' ') : []
ScopeList(scope) == IF scope = "" THEN "[]" ELSE "[" \o scope \o "]"

\* A try block that returns the new access token without storing the record.
onRefreshedUnstored(p, l, resp) ==
  /\ Settle(p, [l EXCEPT !.newAccess = resp.access_token], "fulfilled", resp.access_token, "")
  /\ UNCHANGED storeVars

\* The try block after refreshAccessToken returned: the new record is stored.
onRefreshed(p, l, resp) ==
  LET expiresAt == now + resp.expires_in * 1000
      newTokens == TokenRecord(resp.access_token, resp.refresh_token, expiresAt,
                               ScopeList(resp.scope), TypeOrBearer(resp.token_type))
  IN StoreBegin(p, [l EXCEPT !.newAccess = newTokens.accessToken], newTokens, "rf_store")

\* refreshAccessToken threw: the catch block, which may start clearTokens.
onRefreshFailed(p, l, message) ==
  /\ catchBlock(p, l, message)
  /\ keytarModule' = IF IncludesInvalidGrant(message) THEN KeytarAfterProbe ELSE keytarModule
  /\ UNCHANGED <<inMemoryTokens, keychain, tokenFile, lastWrite>>

\* The token endpoint answers the request of refresh p (or the request fails).
FetchDone(p) ==
  /\ pc[p] = "rf_fetch"
  /\ \E resp \in Responses(p - NumCallers) :
       LET message == refreshAccessToken(resp) IN
       IF message = "" THEN onRefreshed(p, loc[p], resp)
       ELSE onRefreshFailed(p, loc[p], message)
  /\ UNCHANGED <<env, keytarInstalled, listenerVars, loginVars, auxVars, now, calls, overlap, faults>>

(***************************************************************************)
(* The public calls.                                                       *)
(***************************************************************************)
StoreInputs ==
  { TokenRecord(5, 5, 300000, "undefined", "undefined"),
    TokenRecord(0, 5, 300000, "[read]", "Bearer") }

\* Records storeTokens rejects: no refreshToken, no expiresAt, expiresAt '300000'.
InvalidStoreInputs ==
  { TokenRecord(5, 0, 300000, "[read]", "Bearer"),
    TokenRecord(5, 5, 0, "[read]", "Bearer"),
    TokenRecord(5, 5, -300000, "[read]", "Bearer") }
RefreshInputs == {1, 7}

Busy(a) == {b \in Callers \ {a} : pc[b] # "idle"}

\* Caller a starts a public call.  Callers are interchangeable: a caller makes its
\* first call only after the callers before it have made theirs.
Start(a) ==
  /\ pc[a] = "idle"
  /\ \A b \in Callers : b < a => loc[b].op # ""
  /\ calls < MaxCalls
  /\ calls' = calls + 1
  /\ overlap' = [c \in Callers |-> IF c = a THEN Busy(a)
                                   ELSE IF c \in Busy(a) THEN overlap[c] \cup {a}
                                   ELSE overlap[c]]
  /\ UNCHANGED <<env, keytarInstalled, listenerVars, loginVars, auxVars, now, faults>>

\* The record getTokens is specified to answer with in the current state: the first
\* source, in the order cache, environment, keychain, fallback file, with a valid record.
FirstValidRecord ==
  IF IsValidBlob(inMemoryTokens) THEN normalizeTokens(JSONparse(inMemoryTokens))
  ELSE IF getTokensFromEnv(env) # Null THEN getTokensFromEnv(env)
  ELSE IF useKeytar /\ IsValidBlob(keychain) THEN normalizeTokens(JSONparse(keychain))
  ELSE IF IsValidBlob(tokenFile) THEN normalizeTokens(JSONparse(tokenFile))
  ELSE Null

\* getAccessToken() of auth/index.js: getValidAccessToken(getTokens).
CallGetValidAccessToken(a) ==
  /\ Start(a)
  /\ GetBegin(a, [Locals("getValidAccessToken") EXCEPT !.expect = FirstValidRecord], "gvat")

\* isAuthenticated() of auth/index.js: hasValidTokens().
CallIsAuthenticated(a) ==
  /\ Start(a)
  /\ GetBegin(a, [Locals("hasValidTokens") EXCEPT !.expect = FirstValidRecord], "hvt")

CallGetTokens(a) ==
  /\ Start(a)
  /\ GetBegin(a, [Locals("getTokens") EXCEPT !.expect = FirstValidRecord], "op_get")

CallStoreTokens(a) ==
  /\ Start(a)
  /\ \E tokens \in StoreInputs :
       StoreBegin(a, [Locals("storeTokens") EXCEPT !.arg = tokens], tokens, "op_store")

\* storeTokens of a record that lacks a field.
CallStoreInvalidTokens(a) ==
  /\ Start(a)
  /\ \E tokens \in InvalidStoreInputs :
       StoreBegin(a, [Locals("storeTokens") EXCEPT !.arg = tokens,
                                                   !.before = <<inMemoryTokens, keychain, tokenFile>>],
                  tokens, "op_store")

\* clearTokens(), which is logout() of auth/index.js.
CallClearTokens(a) ==
  /\ Start(a)
  /\ keytarModule' = KeytarAfterProbe
  /\ ClearGoto(a, Locals("clearTokens"), "op_clear")
  /\ UNCHANGED <<inMemoryTokens, keychain, tokenFile, lastWrite>>

CallRefreshTokens(a) ==
  /\ Start(a)
  /\ \E refreshToken \in RefreshInputs : refresh(a, Locals("refreshTokens"), refreshToken, "op_refresh")
  /\ UNCHANGED storeVars

\* Time passes.
Tick ==
  /\ \E t \in Instants : t > now /\ now' = t
  /\ UNCHANGED <<storeVars, ctlVars, env, keytarInstalled, listenerVars, loginVars, auxVars, calls, overlap, faults>>

Next ==
  \/ \E a \in Callers : CallGetValidAccessToken(a)
  \/ \E a \in Callers : CallGetTokens(a)
  \/ \E a \in Callers : CallStoreTokens(a)
  \/ \E a \in Callers : CallClearTokens(a)
  \/ \E a \in Callers : CallRefreshTokens(a)
  \/ \E a \in Acts : SetPasswordDone(a)
  \/ \E a \in Acts : StoreUnlinkDone(a)
  \/ \E a \in Acts : WriteFileDone(a)
  \/ \E a \in Acts : StoreResume(a)
  \/ \E a \in Acts : DeletePasswordDone(a)
  \/ \E a \in Acts : ClearUnlinkDone(a)
  \/ \E a \in Acts : ClearResume(a)
  \/ \E a \in Callers : GetPasswordDone(a)
  \/ \E a \in Callers : GetPasswordResume(a)
  \/ \E a \in Callers : ReadFileDone(a)
  \/ \E a \in Callers : ReadFileResume(a)
  \/ \E a \in Callers : ReadUnlinkDone(a)
  \/ \E p \in Flights : FetchDone(p)
  \/ Tick

Spec == Init /\ [][Next]_vars


(***************************************************************************)
(* callback-server.js: waitForCallback.  The server handles one request    *)
(* in one turn of the event loop.                                          *)
(***************************************************************************)
MaxRequests == 2     \* requests the callback server handles in one behaviour

\* The state parameter of the session, options.expectedState.
expectedState == "s1"

\* What URLSearchParams.get gives: null when the parameter is absent, else its value,
\* which may be the empty string.
Absent == [present |-> FALSE, value |-> ""]
Param(v) == [present |-> TRUE, value |-> v]

\* JavaScript truthiness of what get gave: neither null nor ''.
Truthy(p) == p.present /\ p.value # ""

Request(path, error, errorDescription, code, state) ==
  [path |-> path, error |-> error, error_description |-> errorDescription,
   code |-> code, state |-> state]

\* The requests the server is sent.
CallbackRequests ==
  { Request(path, error, errorDescription, code, state) :
      path \in {"/callback", "/favicon.ico"},
      error \in {Absent, Param(""), Param("access_denied")},
      errorDescription \in {Absent, Param("The user denied the request")},
      code \in {Absent, Param(""), Param("c1")},
      state \in {Absent, Param(""), Param(expectedState), Param("s2")} }

\* The requests sent during a login: a request for another path, and the redirects
\* of the provider with a code and the state of the session, with the state of
\* another session, without a code, and with an error.
LoginRequests ==
  { Request("/favicon.ico", Absent, Absent, Absent, Absent),
    Request("/callback", Absent, Absent, Param("c1"), Param(expectedState)),
    Request("/callback", Absent, Absent, Param("c1"), Param("s2")),
    Request("/callback", Absent, Absent, Absent, Param(expectedState)),
    Request("/callback", Param("access_denied"), Absent, Absent, Param(expectedState)) }

\* What the request handler does with a request: the status of the response, and
\* whether and how it settles the promise.
Response404 == [status |-> 404, settle |-> "none", code |-> "", cbstate |-> "", message |-> ""]
Rejection(message) ==
  [status |-> 400, settle |-> "reject", code |-> "", cbstate |-> "", message |-> message]
Success(code, state) ==
  [status |-> 200, settle |-> "resolve", code |-> code, cbstate |-> state, message |-> ""]

\* A handler that validates the state before it looks at the error parameter.
handleRequestStateFirst(r) ==
  IF r.path # "/callback" THEN Response404
  ELSE IF ~Truthy(r.state) \/ r.state.value # expectedState
  THEN Rejection("State validation failed. Possible CSRF attack.")
  ELSE IF Truthy(r.error)
  THEN Rejection("OAuth error: " \o (IF Truthy(r.error_description)
                                     THEN r.error_description.value ELSE r.error.value))
  ELSE IF ~Truthy(r.code)
  THEN Rejection("Missing authorization code in callback")
  ELSE Success(r.code.value, r.state.value)

\* A handler that accepts any state parameter.
handleRequestAnyState(r) ==
  IF r.path # "/callback" THEN Response404
  ELSE IF Truthy(r.error)
  THEN Rejection("OAuth error: " \o (IF Truthy(r.error_description)
                                     THEN r.error_description.value ELSE r.error.value))
  ELSE IF ~Truthy(r.code)
  THEN Rejection("Missing authorization code in callback")
  ELSE Success(r.code.value, r.state.value)

\* The request handler of http.createServer.
handleRequest(r) ==
  IF r.path # "/callback" THEN Response404
  ELSE IF Truthy(r.error)
  THEN Rejection("OAuth error: " \o (IF Truthy(r.error_description)
                                     THEN r.error_description.value ELSE r.error.value))
  ELSE IF ~Truthy(r.code)
  THEN Rejection("Missing authorization code in callback")
  ELSE IF ~Truthy(r.state) \/ r.state.value # expectedState
  THEN Rejection("State validation failed. Possible CSRF attack.")
  ELSE Success(r.code.value, r.state.value)

\* A reject that settles the promise again.
RejectedAgain(message) ==
  [state |-> "rejected", code |-> "", cbstate |-> "", message |-> message]

\* resolve and reject: only the first call settles the promise.
Resolved(code, state) ==
  IF callback.state = "pending"
  THEN [state |-> "resolved", code |-> code, cbstate |-> state, message |-> ""]
  ELSE callback
Rejected(message) ==
  IF callback.state = "pending"
  THEN [state |-> "rejected", code |-> "", cbstate |-> "", message |-> message]
  ELSE callback

\* The other variables of the module, which waitForCallback does not touch.
authVars == <<inMemoryTokens, keytarModule, keychain, tokenFile, env, keytarInstalled, now,
              manager, promise, requests, pc, loc, calls, overlap, faults, lastWrite>>

\* waitForCallback is called: the timer is started, the server created, listen issued.
WaitForCallback ==
  /\ server = "none"
  /\ server' = "starting"
  /\ timeoutId' = "armed"
  /\ callback' = [callback EXCEPT !.state = "pending"]
  /\ UNCHANGED <<httpReq, httpRes, served, authVars, loginVars, auxVars>>

\* The server is listening.
Listening ==
  /\ server = "starting"
  /\ server' = "listening"
  /\ UNCHANGED <<timeoutId, callback, httpReq, httpRes, served, authVars, loginVars, auxVars>>

\* The 'error' event of the server: listen failed.
ServerErrorCodes == {"EADDRINUSE", "EACCES", "EADDRNOTAVAIL"}
ServerError ==
  /\ server = "starting"
  /\ \E code \in ServerErrorCodes :
       callback' = Rejected(IF code = "EADDRINUSE" THEN "Port is already in use"
                            ELSE IF code = "EACCES" THEN "Permission denied to bind to port"
                            ELSE "Failed to start callback server")
  /\ server' = "failed"
  /\ timeoutId' = "cleared"
  /\ UNCHANGED <<httpReq, httpRes, served, authVars, loginVars, auxVars>>

\* The server handles a request.  After a success it stays open until the timer of
\* 100 ms closes it.
HandleRequest ==
  /\ server \in {"listening", "closing"}
  /\ served < MaxRequests
  /\ \E r \in (IF calls = 0 THEN CallbackRequests ELSE LoginRequests) :
       LET out == handleRequest(r) IN
       /\ httpReq' = r
       /\ httpRes' = out
       /\ served' = served + 1
       /\ callback' = IF out.settle = "resolve" THEN Resolved(out.code, out.cbstate)
                      ELSE IF out.settle = "reject" THEN Rejected(out.message)
                      ELSE callback
       /\ timeoutId' = IF out.settle = "none" THEN timeoutId ELSE "cleared"
       /\ server' = IF out.settle = "reject" THEN "closed"
                    ELSE IF out.settle = "resolve" THEN "closing"
                    ELSE server
  /\ UNCHANGED <<authVars, loginVars, auxVars>>

\* The timer set after a success fires: server.close().
CloseAfterDelay ==
  /\ server = "closing"
  /\ server' = "closed"
  /\ UNCHANGED <<timeoutId, callback, httpReq, httpRes, served, authVars, loginVars, auxVars>>

\* A timeout handler that closes the server and leaves the promise pending.
timeoutHandlerSilent ==
  /\ timeoutId = "armed"
  /\ timeoutId' = "fired"
  /\ server' = "closed"
  /\ UNCHANGED <<callback, httpReq, httpRes, served, authVars, loginVars, auxVars>>

\* The timeout of waitForCallback fires.
timeoutHandler ==
  /\ timeoutId = "armed"
  /\ timeoutId' = "fired"
  /\ server' = "closed"
  /\ callback' = Rejected("OAuth callback timed out. Please try again.")
  /\ UNCHANGED <<httpReq, httpRes, served, authVars, loginVars, auxVars>>

NextListener ==
  \/ WaitForCallback
  \/ Listening
  \/ ServerError
  \/ HandleRequest
  \/ CloseAfterDelay
  \/ timeoutHandler

\* The listener alone, in a process whose store is empty.
InitListener ==
  /\ Init
  /\ ~keytarInstalled
  /\ tokenFile = NoData
  /\ env = EnvOf(0, 0, <<>>)

SpecListener == InitListener /\ [][NextListener]_vars

\* The listener with its timer: a timer set with setTimeout and not cleared fires.
SpecListenerFair == SpecListener /\ WF_vars(timeoutHandler)

(***************************************************************************)
(* auth/index.js: authenticate and reAuthenticate, with the manual-input   *)
(* branch, and oauth.js: exchangeCodeForToken.  authenticate runs as a     *)
(* public call of a caller; its listener is the one of waitForCallback     *)
(* above, its storeTokens and the clearTokens of logout() are the ones of  *)
(* token-store.js.                                                         *)
(***************************************************************************)
\* What the user gives to the manual prompt: the trimmed text, its scheme when it
\* starts with one, whether new URL accepts it, and the parameters of its query
\* string in order.
RawInput(text, scheme, wellFormed, pairs) ==
  [text |-> text, scheme |-> scheme, wellFormed |-> wellFormed, pairs |-> pairs]
Pair(name, value) == [name |-> name, value |-> value]

ManualInputs ==
  { RawInput("", "", TRUE, <<>>),
    RawInput("c1", "", TRUE, <<>>),
    RawInput("http://localhost:34711/callback?code=c1&state=s1", "http://", TRUE,
             <<Pair("code", "c1"), Pair("state", "s1")>>),
    RawInput("http://localhost:34711/callback?code=c1&state=s2", "http://", TRUE,
             <<Pair("code", "c1"), Pair("state", "s2")>>),
    RawInput("http://localhost:34711/callback?code=c1", "http://", TRUE,
             <<Pair("code", "c1")>>),
    RawInput("https://example.org/?state=s1", "https://", TRUE, <<Pair("state", "s1")>>),
    RawInput("http://", "http://", FALSE, <<>>),
    RawInput("code=c1&state=s2", "", TRUE, <<Pair("code", "c1"), Pair("state", "s2")>>),
    RawInput("?code=c1&state=", "", TRUE, <<Pair("code", "c1"), Pair("state", "")>>),
    RawInput("state=s1", "", TRUE, <<Pair("state", "s1")>>) }

\* URLSearchParams.get: the value of the first parameter of that name, or null.
SearchParamsGet(pairs, name) ==
  IF \E i \in 1..Len(pairs) : pairs[i].name = name
  THEN Param(pairs[CHOOSE i \in 1..Len(pairs) :
                     /\ pairs[i].name = name
                     /\ \A j \in 1..(i - 1) : pairs[j].name # name].value)
  ELSE Absent

\* value.includes('code=')
IncludesCode(raw) == \E i \in 1..Len(raw.pairs) : raw.pairs[i].name = "code"

\* parseManualCallbackInput: null, a TypeError of new URL, or {code, state}.
Parsed(kind, code, state) == [kind |-> kind, code |-> code, state |-> state]
parseManualCallbackInput(raw) ==
  IF raw.text = "" THEN Parsed("null", Absent, Absent)
  ELSE IF raw.scheme \in {"http://", "https://"}
  THEN IF raw.wellFormed
       THEN Parsed("object", SearchParamsGet(raw.pairs, "code"),
                   SearchParamsGet(raw.pairs, "state"))
       ELSE Parsed("throw", Absent, Absent)
  ELSE IF IncludesCode(raw)
  THEN Parsed("object", SearchParamsGet(raw.pairs, "code"),
              SearchParamsGet(raw.pairs, "state"))
  ELSE Parsed("object", Param(raw.text), Absent)

\* The settled promises of the two branches.
Fulfilled(code, state) ==
  [state |-> "resolved", code |-> code, cbstate |-> state, message |-> "",
   raw |-> RawInput("", "", TRUE, <<>>)]
Failed(message) ==
  [state |-> "rejected", code |-> "", cbstate |-> "", message |-> message,
   raw |-> RawInput("", "", TRUE, <<>>)]

\* The body of manualPromise after manualCodeInput answered: a pasted state that
\* is not empty is compared with the state of the session.
manualPromise(raw) ==
  LET parsed == parseManualCallbackInput(raw) IN
  IF parsed.kind = "throw" THEN Failed("Invalid URL")
  ELSE IF parsed.kind = "null" \/ ~Truthy(parsed.code)
  THEN Failed("OAuth authentication cancelled by user.")
  ELSE IF Truthy(parsed.state) /\ parsed.state.value # expectedState
  THEN Failed("State validation failed. Possible CSRF attack.")
  ELSE Fulfilled(parsed.code.value,
                 IF Truthy(parsed.state) THEN parsed.state.value ELSE expectedState)

Settled(p) == p.state \in {"resolved", "rejected"}

\* The options of authenticate: whether openBrowser and manualCodeInput are given.
LoginOptions == [openBrowser : BOOLEAN, manualCodeInput : BOOLEAN]

\* A caller starts a login.  The model has one listener, hence one login in a
\* behaviour.
StartLogin(a) ==
  /\ \A b \in Callers : pc[b] = "idle"
  /\ \A b \in Callers : b < a => loc[b].op # ""
  /\ server = "none"
  /\ calls < MaxCalls
  /\ calls' = calls + 1
  /\ overlap' = [c \in Callers |-> IF c = a THEN Busy(a)
                                   ELSE IF c \in Busy(a) THEN overlap[c] \cup {a}
                                   ELSE overlap[c]]
  /\ UNCHANGED <<env, keytarInstalled, auxVars, now, faults>>

CallAuthenticate(a) ==
  /\ StartLogin(a)
  /\ \E options \in LoginOptions :
       authenticateBegin(a, [Locals("authenticate") EXCEPT !.options = options],
                         inMemoryTokens)
  /\ UNCHANGED storeVars

\* A reAuthenticate that starts authenticate without logging out.
CallReAuthenticateNoLogout(a) ==
  /\ StartLogin(a)
  /\ \E options \in LoginOptions :
       authenticateBegin(a, [Locals("reAuthenticate") EXCEPT !.options = options],
                         inMemoryTokens)
  /\ UNCHANGED storeVars

\* reAuthenticate(options): logout() is awaited, then authenticate(options) runs.
CallReAuthenticate(a) ==
  /\ StartLogin(a)
  /\ keytarModule' = KeytarAfterProbe
  /\ \E options \in LoginOptions :
       ClearGoto(a, [Locals("reAuthenticate") EXCEPT !.options = options], "ra_logout")
  /\ UNCHANGED <<inMemoryTokens, keychain, tokenFile, lastWrite, listenerVars, loginVars>>

\* The opening of the browser completes.  openBrowser of the options may throw,
\* which ends authenticate; when the default open fails, shouldPromptManual is set
\* and, with a manualCodeInput, the manual prompt is started and raced.
OpenBrowserDone(a) ==
  /\ pc[a] = "au_open"
  /\ \E ok \in BOOLEAN :
       IF loc[a].options.openBrowser /\ ~ok
       THEN /\ Finish(a, loc[a], ErrorResult("openBrowser failed"))
            /\ UNCHANGED manual
       ELSE IF ~loc[a].options.openBrowser /\ ~ok /\ loc[a].options.manualCodeInput
       THEN /\ manual' = [manual EXCEPT !.state = "prompting"]
            /\ Goto(a, loc[a], "au_race")
       ELSE /\ Goto(a, loc[a], "au_wait")
            /\ UNCHANGED manual
  /\ UNCHANGED <<storeVars, env, keytarInstalled, listenerVars, auxVars, exchanges, aborted, now,
                 calls, overlap, faults>>

\* manualCodeInput answers and manualPromise settles.  When the promise of the
\* listener has settled, authenticate has already resumed from the race.
ManualInputDone ==
  /\ manual.state = "prompting"
  /\ ~(Settled(callback) /\ \E a \in Callers : pc[a] = "au_race")
  /\ \E raw \in ManualInputs : manual' = [manualPromise(raw) EXCEPT !.raw = raw]
  /\ UNCHANGED <<authVars, listenerVars, auxVars, exchanges, aborted>>

\* exchangeCodeForToken up to its fetch: the request with the code is sent.
exchangeBegin(a, l, code) ==
  /\ exchanges' = Append(exchanges, code)
  /\ Goto(a, [l EXCEPT !.code = code], "au_fetch")

\* A continuation that exchanges whatever the settled promise holds.
afterCallbackUnchecked(a, l, settled) == exchangeBegin(a, l, settled.code)

\* authenticate after its await of the callback: a rejection is thrown on, the
\* code of a fulfilled callback is exchanged.
afterCallback(a, l, settled) ==
  IF settled.state = "resolved" THEN exchangeBegin(a, l, settled.code)
  ELSE /\ Finish(a, l, ErrorResult(settled.message))
       /\ UNCHANGED exchanges

\* callback = await callbackPromise
CallbackResume(a) ==
  /\ pc[a] = "au_wait"
  /\ Settled(callback)
  /\ afterCallback(a, [loc[a] EXCEPT !.won = "listener"], callback)
  /\ UNCHANGED <<storeVars, env, keytarInstalled, listenerVars, auxVars, manual, aborted, now,
                 calls, overlap, faults>>

\* callback = await Promise.race([callbackPromise, manualPromise]), then
\* abortController.abort(), which a rejection skips.
RaceResume(a) ==
  /\ pc[a] = "au_race"
  /\ Settled(callback) \/ Settled(manual)
  /\ LET won == IF Settled(manual) THEN "manual" ELSE "listener"
         settled == IF Settled(manual) THEN manual ELSE callback
     IN /\ afterCallback(a, [loc[a] EXCEPT !.won = won], settled)
        /\ aborted' = (settled.state = "resolved")
  /\ UNCHANGED <<storeVars, env, keytarInstalled, listenerVars, auxVars, manual, now,
                 calls, overlap, faults>>

\* The message of the Error exchangeCodeForToken throws, "" when it returns the data.
exchangeCodeForToken(resp) ==
  IF ~resp.transport THEN "fetch failed"
  ELSE IF ~resp.ok THEN "Token exchange failed"
  ELSE IF resp.access_token = 0 THEN "Token response missing access_token"
  ELSE IF resp.refresh_token = 0 THEN "Token response missing refresh_token"
  ELSE IF resp.expires_in = 0 THEN "Token response missing expires_in"
  ELSE ""

\* The token endpoint answers the code exchange (or the request fails): the record
\* is built and storeTokens is called, or authenticate throws.
ExchangeDone(a) ==
  /\ pc[a] = "au_fetch"
  /\ \E resp \in Responses(0) :
       LET message == exchangeCodeForToken(resp)
           expiresAt == now + resp.expires_in * 1000
           tokens == TokenRecord(resp.access_token, resp.refresh_token, expiresAt,
                                 ScopeList(resp.scope), TypeOrBearer(resp.token_type))
       IN IF message = ""
          THEN StoreBegin(a, [loc[a] EXCEPT !.arg = tokens], tokens, "au_store")
          ELSE /\ Finish(a, loc[a], ErrorResult(message))
               /\ UNCHANGED storeVars
  /\ UNCHANGED <<env, keytarInstalled, listenerVars, loginVars, auxVars, now, calls, overlap, faults>>

NextLogin ==
  \/ \E a \in Callers : CallAuthenticate(a)
  \/ \E a \in Callers : CallReAuthenticate(a)
  \/ \E a \in Callers : OpenBrowserDone(a)
  \/ ManualInputDone
  \/ \E a \in Callers : CallbackResume(a)
  \/ \E a \in Callers : RaceResume(a)
  \/ \E a \in Callers : ExchangeDone(a)
  \/ \E a \in Callers : SetPasswordDone(a)
  \/ \E a \in Callers : StoreUnlinkDone(a)
  \/ \E a \in Callers : WriteFileDone(a)
  \/ \E a \in Callers : StoreResume(a)
  \/ \E a \in Callers : DeletePasswordDone(a)
  \/ \E a \in Callers : ClearUnlinkDone(a)
  \/ \E a \in Callers : ClearResume(a)
  \/ Listening
  \/ ServerError
  \/ HandleRequest
  \/ CloseAfterDelay
  \/ timeoutHandler

\* A login in a process whose environment holds no record and whose keychain and
\* fallback file are empty or hold an earlier record.
PreviousRecord == TokenRecord(1, 1, 300000, "[read]", "Bearer")
InitLogin ==
  /\ Init
  /\ env = EnvOf(0, 0, <<>>)
  /\ keychain \in {NoData, JSONstringify(PreviousRecord)}
  /\ tokenFile \in {NoData, JSONstringify(PreviousRecord)}

SpecLogin == InitLogin /\ [][NextLogin]_vars

(***************************************************************************)
(* oauth.js: revokeToken.                                                  *)
(***************************************************************************)
MaxRevocations == 2   \* calls of revokeToken in one behaviour

\* The answers of the revocation endpoint: fetch rejects, 200, 400, 503.
RevokeResponse(transport, status) ==
  [transport |-> transport, ok |-> (transport /\ status \in 200..299), status |-> status]
RevokeResponses ==
  { RevokeResponse(FALSE, 0), RevokeResponse(TRUE, 200),
    RevokeResponse(TRUE, 400), RevokeResponse(TRUE, 503) }
NoResponse == RevokeResponse(FALSE, 0)

\* The body of the request: token_type_hint is appended when the hint is truthy.
RevokeBody(token, tokenTypeHint) ==
  [token |-> token, client_id |-> "clientId",
   token_type_hint |-> IF tokenTypeHint \in {"undefined", ""} THEN Absent
                       ELSE Param(tokenTypeHint)]

\* A revokeToken that throws on a response that is not ok.
revokeTokenStrict(resp) ==
  IF ~resp.transport THEN [pc |-> "returned", log |-> "warn: Token revocation error"]
  ELSE IF ~resp.ok THEN [pc |-> "thrown", log |-> "warn: Token revocation failed"]
  ELSE [pc |-> "returned", log |-> "debug: Token revoked successfully"]

\* revokeToken after its fetch: how the call ends, and what it logs.
revokeToken(resp) ==
  IF ~resp.transport THEN [pc |-> "returned", log |-> "warn: Token revocation error"]
  ELSE IF ~resp.ok THEN [pc |-> "returned", log |-> "warn: Token revocation failed"]
  ELSE [pc |-> "returned", log |-> "debug: Token revoked successfully"]

\* The variables revokeToken does not touch.
notRevokeVars == <<authVars, listenerVars, loginVars, issueStart>>

\* revokeToken(token, tokenTypeHint) is called: the request is sent.
CallRevokeToken ==
  /\ Len(revocations) < MaxRevocations
  /\ \E token \in {"t1", "undefined"},
        tokenTypeHint \in {"undefined", "", "access_token", "refresh_token"} :
       revocations' = Append(revocations,
                             [pc |-> "fetch", body |-> RevokeBody(token, tokenTypeHint),
                              resp |-> NoResponse, log |-> ""])
  /\ UNCHANGED notRevokeVars

\* The revocation endpoint answers, or the request fails.
RevokeFetchDone ==
  /\ \E i \in 1..Len(revocations), resp \in RevokeResponses :
       /\ revocations[i].pc = "fetch"
       /\ LET end == revokeToken(resp) IN
          revocations' = [revocations EXCEPT ![i].pc = end.pc, ![i].log = end.log,
                                             ![i].resp = resp]
  /\ UNCHANGED notRevokeVars

NextRevoke ==
  \/ CallRevokeToken
  \/ RevokeFetchDone

SpecRevoke == InitListener /\ [][NextRevoke]_vars

(***************************************************************************)
(* handlers.js: executeIssueStart and startGitBranch; linear.js:           *)
(* prepareIssueStart.  An absent parameter is the empty string.            *)
(***************************************************************************)
MaxSuffix == 2   \* the suffixes startGitBranch tries before it finds a free name

\* The parameters of the call.
IssueStartParams ==
  [issue : {"", "TEST-123"}, branch : {"", "custom"}, fromRef : {"", "main"},
   onBranchExists : {"", "switch", "suffix"}]

\* What Linear answers to prepareIssueStart: whether the issue resolves, has a team,
\* the team has a started state, and the branch name Linear suggests.
LinearAnswers ==
  [resolved : BOOLEAN, team : BOOLEAN, started : BOOLEAN,
   branchName : {"", "default/test-branch-name"}]

\* prepareIssueStart: the message of the Error thrown, "" when it returns.
prepareIssueStart(answer) ==
  IF ~answer.resolved THEN "Issue not found"
  ELSE IF ~answer.team THEN "Issue has no team assigned"
  ELSE IF ~answer.started THEN "Could not resolve a started workflow state"
  ELSE ""

\* params.branch || prepared.branchName
desiredBranchOf(params, branchName) ==
  IF params.branch # "" THEN params.branch ELSE branchName

\* `${branchName}-${suffix}`
SuffixedName(branchName, suffix) == branchName \o "-" \o Digits[suffix + 1]

\* The variables executeIssueStart does not touch.
notIssueVars == <<authVars, listenerVars, loginVars, revocations>>

Thrown(message) == [issueStart EXCEPT !.pc = "thrown", !.error = message]

\* executeIssueStart(client, params, options) up to its first await.
CallExecuteIssueStart ==
  /\ issueStart.pc = "idle"
  /\ \E params \in IssueStartParams, gitExecutor \in BOOLEAN :
       LET called == [issueStart EXCEPT !.params = params, !.gitExecutor = gitExecutor] IN
       issueStart' = IF params.issue = ""
                     THEN [called EXCEPT !.pc = "thrown",
                                         !.error = "Missing required field: issue"]
                     ELSE [called EXCEPT !.pc = "prepare"]
  /\ UNCHANGED notIssueVars

\* A continuation that sends the state change before the git step.
PrepareDoneStateFirst ==
  /\ issueStart.pc = "prepare"
  /\ \E answer \in LinearAnswers :
       LET message == prepareIssueStart(answer)
           desiredBranch == desiredBranchOf(issueStart.params, answer.branchName)
           fromRef == IF issueStart.params.fromRef # "" THEN issueStart.params.fromRef
                      ELSE "HEAD"
           onBranchExists == IF issueStart.params.onBranchExists # ""
                             THEN issueStart.params.onBranchExists ELSE "switch"
       IN issueStart' =
            IF message # "" THEN Thrown(message)
            ELSE IF desiredBranch = "" THEN Thrown("No branch name resolved for issue")
            ELSE [issueStart EXCEPT !.branchName = answer.branchName,
                                    !.handed = desiredBranch, !.fromRef = fromRef,
                                    !.onBranchExists = onBranchExists,
                                    !.stateChanges = @ + 1,
                                    !.pc = IF issueStart.gitExecutor THEN "executor"
                                           ELSE "git_exists"]
  /\ UNCHANGED notIssueVars

\* prepareIssueStart returns or throws; the branch is chosen and the git step is
\* started: the executor of the options, or gitBranchExists of startGitBranch.
PrepareDone ==
  /\ issueStart.pc = "prepare"
  /\ \E answer \in LinearAnswers :
       LET message == prepareIssueStart(answer)
           desiredBranch == desiredBranchOf(issueStart.params, answer.branchName)
           fromRef == IF issueStart.params.fromRef # "" THEN issueStart.params.fromRef
                      ELSE "HEAD"
           onBranchExists == IF issueStart.params.onBranchExists # ""
                             THEN issueStart.params.onBranchExists ELSE "switch"
       IN issueStart' =
            IF message # "" THEN Thrown(message)
            ELSE IF desiredBranch = "" THEN Thrown("No branch name resolved for issue")
            ELSE [issueStart EXCEPT !.branchName = answer.branchName,
                                    !.handed = desiredBranch, !.fromRef = fromRef,
                                    !.onBranchExists = onBranchExists,
                                    !.pc = IF issueStart.gitExecutor THEN "executor"
                                           ELSE "git_exists"]
  /\ UNCHANGED notIssueVars

\* The outcomes of a git command: it cannot be spawned, or it exits with 0 or 1.
GitOutcomes == {"error", "0", "1"}

\* git rev-parse --verify ends: gitBranchExists of the name, or of the next
\* suffixed name.
GitBranchExistsDone ==
  /\ issueStart.pc \in {"git_exists", "git_exists_suffix"}
  /\ \E outcome \in GitOutcomes :
       LET exists == outcome = "0" IN
       /\ (exists /\ issueStart.pc = "git_exists_suffix") => issueStart.suffix < MaxSuffix
       /\ issueStart' =
            IF outcome = "error" THEN Thrown("spawn git ENOENT")
            ELSE IF issueStart.pc = "git_exists"
            THEN IF ~exists
                 THEN [issueStart EXCEPT !.pc = "git_create", !.checkout = issueStart.handed]
                 ELSE IF issueStart.onBranchExists = "suffix"
                 THEN [issueStart EXCEPT !.pc = "git_exists_suffix", !.suffix = 1]
                 ELSE [issueStart EXCEPT !.pc = "git_switch", !.checkout = issueStart.handed]
            ELSE IF exists
                 THEN [issueStart EXCEPT !.suffix = @ + 1]
                 ELSE [issueStart EXCEPT !.pc = "git_create_suffix",
                                         !.checkout = SuffixedName(issueStart.handed,
                                                                   issueStart.suffix)]
  /\ UNCHANGED notIssueVars

\* setIssueState is called with the started state.
SendStateChange(gitResult) ==
  [issueStart EXCEPT !.pc = "set_state", !.git = gitResult, !.stateChanges = @ + 1]

\* git checkout (-b) ends: startGitBranch throws on an exit code other than 0, else
\* returns, and executeIssueStart goes on to setIssueState.
GitCheckoutDone ==
  /\ issueStart.pc \in {"git_create", "git_create_suffix", "git_switch"}
  /\ \E outcome \in GitOutcomes :
       issueStart' =
         IF outcome = "error" THEN Thrown("spawn git ENOENT")
         ELSE IF outcome # "0"
         THEN Thrown(IF issueStart.pc = "git_switch" THEN "git checkout failed"
                     ELSE "git checkout -b failed")
         ELSE SendStateChange(<<IF issueStart.pc = "git_create" THEN "created"
                                ELSE IF issueStart.pc = "git_create_suffix"
                                THEN "created-suffix" ELSE "switched",
                                issueStart.checkout>>)
  /\ UNCHANGED notIssueVars

\* The git executor of the options returns or throws.
GitExecutorDone ==
  /\ issueStart.pc = "executor"
  /\ \E ok \in BOOLEAN :
       issueStart' = IF ok THEN SendStateChange(<<"created", issueStart.handed>>)
                     ELSE Thrown("git executor failed")
  /\ UNCHANGED notIssueVars

\* setIssueState returns or throws.
SetIssueStateDone ==
  /\ issueStart.pc = "set_state"
  /\ \E ok \in BOOLEAN :
       issueStart' = IF ok THEN [issueStart EXCEPT !.pc = "returned"]
                     ELSE Thrown("Failed to update issue state")
  /\ UNCHANGED notIssueVars

NextIssueStart ==
  \/ CallExecuteIssueStart
  \/ PrepareDone
  \/ GitBranchExistsDone
  \/ GitCheckoutDone
  \/ GitExecutorDone
  \/ SetIssueStateDone

SpecIssueStart == InitListener /\ [][NextIssueStart]_vars

(***************************************************************************)
(* token-refresh.js: resetRefreshManager among calls of refreshTokens.     *)
(***************************************************************************)
\* resetRefreshManager(): TokenRefreshManager.reset releases the lock and drops the
\* handle, whether or not a refresh is in flight.  A reset of a released lock
\* changes nothing.
CallResetRefreshManager ==
  /\ manager # ReleasedLock
  /\ manager' = ReleasedLock
  /\ UNCHANGED <<storeVars, promise, requests, pc, loc, env, keytarInstalled, listenerVars,
                 loginVars, auxVars, now, calls, overlap, faults>>

NextReset ==
  \/ \E a \in Callers : CallRefreshTokens(a)
  \/ CallResetRefreshManager
  \/ \E p \in Flights : FetchDone(p)
  \/ \E a \in Acts : SetPasswordDone(a)
  \/ \E a \in Acts : StoreUnlinkDone(a)
  \/ \E a \in Acts : WriteFileDone(a)
  \/ \E a \in Acts : StoreResume(a)
  \/ \E a \in Acts : DeletePasswordDone(a)
  \/ \E a \in Acts : ClearUnlinkDone(a)
  \/ \E a \in Acts : ClearResume(a)

\* The store holds one record, in the fallback file, and no environment credentials.
InitReset ==
  /\ Init
  /\ getTokensFromEnv(env) = Null
  /\ keychain = NoData
  /\ tokenFile # NoData /\ IsValidBlob(tokenFile)

SpecReset == InitReset /\ [][NextReset]_vars

(***************************************************************************)
(* token-store.js across processes: the cache and the keytar probe are     *)
(* module-level variables, the keychain and the fallback file outlast the  *)
(* process.                                                                *)
(***************************************************************************)
\* The process ends while no call is running and a new one starts: the module is
\* loaded again, with inMemoryTokens = null and keytarModule = null.
NewProcess ==
  /\ \A a \in Callers : pc[a] = "idle"
  /\ inMemoryTokens # NoData \/ keytarModule # "null"
  /\ inMemoryTokens' = NoData
  /\ keytarModule' = "null"
  /\ UNCHANGED <<keychain, tokenFile, lastWrite, ctlVars, env, keytarInstalled, listenerVars,
                 loginVars, auxVars, now, calls, overlap, faults>>

NextProcesses ==
  \/ \E a \in Callers : CallStoreTokens(a)
  \/ \E a \in Callers : CallGetTokens(a)
  \/ NewProcess
  \/ \E a \in Acts : SetPasswordDone(a)
  \/ \E a \in Acts : StoreUnlinkDone(a)
  \/ \E a \in Acts : WriteFileDone(a)
  \/ \E a \in Acts : StoreResume(a)
  \/ \E a \in Acts : DeletePasswordDone(a)
  \/ \E a \in Acts : ClearUnlinkDone(a)
  \/ \E a \in Acts : ClearResume(a)
  \/ \E a \in Callers : GetPasswordDone(a)
  \/ \E a \in Callers : GetPasswordResume(a)
  \/ \E a \in Callers : ReadFileDone(a)
  \/ \E a \in Callers : ReadFileResume(a)
  \/ \E a \in Callers : ReadUnlinkDone(a)

\* No credentials in the environment.
InitProcesses == Init /\ env = EnvOf(0, 0, <<>>)

SpecProcesses == InitProcesses /\ [][NextProcesses]_vars

(***************************************************************************)
(* auth/index.js: isAuthenticated beside getAccessToken.                   *)
(***************************************************************************)
NextAuthenticated ==
  \/ \E a \in Callers : CallIsAuthenticated(a)
  \/ \E a \in Callers : CallGetValidAccessToken(a)
  \/ \E a \in Acts : SetPasswordDone(a)
  \/ \E a \in Acts : StoreUnlinkDone(a)
  \/ \E a \in Acts : WriteFileDone(a)
  \/ \E a \in Acts : StoreResume(a)
  \/ \E a \in Acts : DeletePasswordDone(a)
  \/ \E a \in Acts : ClearUnlinkDone(a)
  \/ \E a \in Acts : ClearResume(a)
  \/ \E a \in Callers : GetPasswordDone(a)
  \/ \E a \in Callers : GetPasswordResume(a)
  \/ \E a \in Callers : ReadFileDone(a)
  \/ \E a \in Callers : ReadFileResume(a)
  \/ \E a \in Callers : ReadUnlinkDone(a)
  \/ \E p \in Flights : FetchDone(p)
  \/ Tick

\* An expiry in the environment beyond the range of a Date: 9999999999999999.
FarFuture ==
  EnvOf(2, 2, <<"9", "9", "9", "9", "9", "9", "9", "9", "9", "9", "9", "9", "9", "9", "9", "9">>)

InitAuthenticated == InitIn(Environments \cup {FarFuture})

SpecAuthenticated == InitAuthenticated /\ [][NextAuthenticated]_vars

(***************************************************************************)
(* token-store.js: storeTokens with valid and invalid records.             *)
(***************************************************************************)
NextStore ==
  \/ \E a \in Callers : CallStoreTokens(a)
  \/ \E a \in Callers : CallStoreInvalidTokens(a)
  \/ \E a \in Acts : SetPasswordDone(a)
  \/ \E a \in Acts : StoreUnlinkDone(a)
  \/ \E a \in Acts : WriteFileDone(a)
  \/ \E a \in Acts : StoreResume(a)

SpecStore == Init /\ [][NextStore]_vars


(***************************************************************************)
(* Properties.                                                             *)
(***************************************************************************)
\* Caller a has returned from a public call.
Done(a) == a \in Callers /\ pc[a] = "idle" /\ loc[a].op # ""

\* The refreshes whose promise is pending.
InFlight == {p \in Flights : pc[p] \notin {"unused", "settled"}}

\* The steps of storeTokens.
StorePcs == {"st_setPassword", "st_unlink", "st_writeFile", "st_done"}

\* C1: when two calls of getValidAccessToken run concurrently and each finds the
\* record expired, and the refresh the first of them awaits succeeds, the token endpoint
\* is asked exactly once and the two calls return the same access token, whatever
\* the interleaving of their store reads with the steps of the refresh.
C1_OneRefreshForConcurrentCalls ==
  \A a, b \in Callers :
    ( /\ a # b /\ Done(a) /\ Done(b) /\ b \in overlap[a]
      /\ loc[a].op = "getValidAccessToken" /\ loc[b].op = "getValidAccessToken"
      /\ loc[a].expired /\ loc[b].expired
      /\ loc[a].awaited <= loc[b].awaited
      /\ promise[loc[a].awaited].state = "fulfilled" )
    => /\ Len(requests) = 1
       /\ loc[a].result = loc[b].result

\* C2: at most one refresh request is in flight; a call of refreshTokens made while
\* one is in flight, whatever refresh token it passes, waits for that refresh and
\* settles with its outcome.
C2_SingleFlight ==
  /\ Cardinality(InFlight) <= 1
  /\ \A a \in Callers : pc[a] = "await_refresh" =>
        /\ loc[a].awaited \in InFlight
        /\ manager.isRefreshing /\ manager.refreshPromise = loc[a].awaited
  /\ \A a \in Callers : (Done(a) /\ loc[a].op = "refreshTokens") =>
        LET q == promise[loc[a].awaited] IN
        loc[a].result = IF q.state = "fulfilled" THEN TokenResult(q.token)
                        ELSE ErrorResult(q.err)

\* Two overlapping calls of refreshTokens with different refresh tokens have returned,
\* and one request was sent.
C2_Joined ==
  \E a, b \in Callers :
    /\ a # b /\ Done(a) /\ Done(b) /\ b \in overlap[a]
    /\ loc[a].op = "refreshTokens" /\ loc[b].op = "refreshTokens"
    /\ loc[a].rt # loc[b].rt
    /\ loc[a].awaited = loc[b].awaited
    /\ Len(requests) = 1

\* C3: a refresh is fulfilled only after storeTokens has written the new record;
\* while storeTokens runs the lock is held and the promise is pending, so no waiter
\* has the new token before the record is stored.
C3_StoredBeforeRelease ==
  /\ \A p \in Flights : promise[p].state = "fulfilled" => loc[p].persisted # ""
  /\ \A p \in Flights : pc[p] \in StorePcs =>
        /\ manager.isRefreshing /\ manager.refreshPromise = p
        /\ promise[p].state = "pending"
  /\ \A a \in Callers : (Done(a) /\ loc[a].awaited # 0 /\ loc[a].result.kind = "token") =>
        loc[loc[a].awaited].persisted # ""

\* A caller has received the token of a refresh that stored its record.
C3_TokenAfterStore ==
  \E a \in Callers :
    /\ Done(a) /\ loc[a].awaited # 0
    /\ loc[a].result = TokenResult(promise[loc[a].awaited].token)
    /\ promise[loc[a].awaited].state = "fulfilled"
    /\ loc[loc[a].awaited].persisted # ""
    /\ ~manager.isRefreshing

\* The step in which refresh p is rejected with invalid_grant.
InvalidGrantReturns(p) ==
  /\ promise[p].state = "pending"
  /\ promise'[p].state = "rejected"
  /\ IncludesInvalidGrant(promise'[p].err)

\* C4 as stated: when a refresh is rejected with invalid_grant, no backend of the
\* store holds a usable record and getTokens would answer with no credentials.
C4_NoRecordAfterInvalidGrant ==
  [][\A p \in Flights : InvalidGrantReturns(p) =>
        /\ inMemoryTokens' = NoData
        /\ ~IsValidBlob(keychain')
        /\ ~IsValidBlob(tokenFile')
        /\ FirstValidRecord' = Null]_vars

\* C4: when a refresh is rejected with invalid_grant, clearTokens has run: the cache
\* is empty, and the keychain and the fallback file have each been purged unless
\* that purge failed; a purged backend holds data only if another call wrote it
\* afterwards, and getTokens finds a record only in the environment or in a backend
\* that still holds data.
C4_PurgedAfterInvalidGrant ==
  [][\A p \in Flights : InvalidGrantReturns(p) =>
        /\ inMemoryTokens' = NoData
        /\ IF useKeytar' THEN "keychain" \in loc'[p].purged \cup loc'[p].purgeFail
                         ELSE keychain' = NoData
        /\ "file" \in loc'[p].purged \cup loc'[p].purgeFail
        /\ keychain' # NoData => "keychain" \in loc'[p].purgeFail \/ lastWrite'.keychain # p
        /\ tokenFile' # NoData => "file" \in loc'[p].purgeFail \/ lastWrite'.file # p
        /\ FirstValidRecord' # Null =>
              \/ getTokensFromEnv(env') # Null
              \/ keychain' # NoData
              \/ tokenFile' # NoData]_vars

\* A refresh was rejected with invalid_grant after it emptied a cache and a fallback
\* file that held records.
C4_Purged ==
  \E p \in Flights :
    /\ promise[p].state = "rejected" /\ IncludesInvalidGrant(promise[p].err)
    /\ "memory" \in loc[p].wrote
    /\ "file" \in loc[p].wrote
    /\ "file" \in loc[p].purged

\* C5: when a refresh fails with invalid_grant, no caller that awaited it gets a
\* token: refreshTokens throws the invalid_grant error to each of them, and no
\* caller is left waiting for the settled refresh.
C5_NoTokenAfterInvalidGrant ==
  /\ \A a \in Callers :
        (Done(a) /\ loc[a].awaited # 0 /\ IncludesInvalidGrant(loc[loc[a].awaited].err)) =>
           /\ loc[a].result.kind # "token"
           /\ loc[a].op = "refreshTokens" => loc[a].result = ErrorResult(loc[loc[a].awaited].err)
  /\ \A a \in Callers : pc[a] = "await_refresh" => pc[loc[a].awaited] # "settled"

\* Two callers awaited the same refresh, which failed with invalid_grant.
C5_BothRejected ==
  \E a, b \in Callers :
    /\ a # b /\ Done(a) /\ Done(b)
    /\ loc[a].awaited # 0 /\ loc[a].awaited = loc[b].awaited
    /\ IncludesInvalidGrant(promise[loc[a].awaited].err)
    /\ loc[a].result.kind # "token" /\ loc[b].result.kind # "token"


\* C6: whatever the outcome of a refresh, once it has settled the lock is released
\* and the handle is cleared: the manager never points at a settled refresh, so the
\* next call of refreshTokens starts a new one.
C6_LockReleased ==
  /\ \A p \in Flights : pc[p] = "settled" =>
        /\ manager.refreshPromise # p
        /\ promise[p].state \in {"fulfilled", "rejected"}
  /\ manager.isRefreshing => manager.refreshPromise \in InFlight
  /\ ~manager.isRefreshing => manager.refreshPromise = 0 /\ InFlight = {}

\* A refresh failed because storeTokens threw, and a later call started a new refresh.
C6_NewRefreshAfterFailure ==
  \E p, q \in Flights :
    /\ p < q
    /\ promise[p].state = "rejected" /\ promise[p].err = "EACCES: permission denied"
    /\ pc[q] = "rf_fetch" /\ manager.refreshPromise = q
    /\ Len(requests) = 2

\* Caller a has returned from getValidAccessToken, which found a record that was not
\* within the buffer of its expiry.
FreshCall(a) ==
  /\ Done(a) /\ loc[a].op = "getValidAccessToken"
  /\ loc[a].got # Null
  /\ loc[a].nowRead < loc[a].got.expiresAt - DefaultBufferSeconds * 1000

C8_ReauthDistinguished ==
  \A a \in Callers : (Done(a) /\ loc[a].op = "getValidAccessToken") =>
     /\ loc[a].result = NullResult => loc[a].got = Null
     /\ (loc[a].awaited # 0 /\ IncludesInvalidGrant(loc[loc[a].awaited].err)) =>
           loc[a].result.kind = "error"

\* The messages refreshAccessToken throws other than invalid_grant.
OtherRefreshErrors ==
  {refreshAccessToken(r) : r \in Responses(1)} \ {"", "invalid_grant"}

\* C9: a refresh that fails at the token endpoint with an error other than
\* invalid_grant changes and purges no backend of the store and sends one request;
\* getValidAccessToken then returns null.
C9_OtherErrorsKeepStore ==
  /\ \A p \in Flights : (pc[p] = "settled" /\ loc[p].err \in OtherRefreshErrors) =>
        /\ promise[p] = [state |-> "rejected", token |-> 0, err |-> loc[p].err]
        /\ loc[p].wrote = {} /\ loc[p].purged = {} /\ loc[p].purgeFail = {}
        /\ loc[p].sent = 1
  /\ \A a \in Callers :
        ( /\ Done(a) /\ loc[a].op = "getValidAccessToken" /\ loc[a].awaited # 0
          /\ loc[loc[a].awaited].err \in OtherRefreshErrors ) =>
        loc[a].result = NullResult

\* A refresh failed with a server error while the cache and the fallback file held the
\* record, and they still hold it.
C9_StoreKept ==
  \E a \in Callers :
    /\ Done(a) /\ loc[a].op = "getValidAccessToken" /\ loc[a].awaited # 0
    /\ loc[loc[a].awaited].err = "Token refresh failed"
    /\ overlap[a] = {} /\ calls = 1
    /\ IsValidBlob(inMemoryTokens) /\ inMemoryTokens = tokenFile
    /\ Len(requests) = 1

\* C10: getTokens, when no other call runs and no read fails, answers with the record
\* of the first of the cache, the environment, the keychain and the fallback file that
\* holds a valid one, and with null when none does.
C10_FirstValidSource ==
  \A a \in Callers :
    (Done(a) /\ loc[a].op = "getTokens" /\ overlap[a] = {} /\ ~loc[a].readFail) =>
       loc[a].result = IF loc[a].expect = Null THEN NullResult
                       ELSE RecordResult(loc[a].expect)


\* Caller a runs getTokens, and no other call runs or ran while it did.
GetsAlone(a) ==
  /\ a \in Callers /\ pc[a] # "idle" /\ loc[a].op = "getTokens"
  /\ overlap[a] = {} /\ Busy(a) = {}

\* C11: a getTokens call that runs alone purges only the source in which it found an
\* invalid record: it deletes no valid record from the keychain or the fallback file,
\* and when no read failed it returns the record of the first source holding a valid one.
C11_PurgesInvalidSourceOnly ==
  [][\A a \in Callers : GetsAlone(a) =>
        /\ IsValidBlob(keychain) => keychain' = keychain
        /\ IsValidBlob(tokenFile) => tokenFile' = tokenFile
        /\ (pc'[a] = "idle" /\ ~loc'[a].readFail /\ loc'[a].expect # Null) =>
              loc'[a].result = RecordResult(loc'[a].expect)]_vars

\* The validity of a token record: accessToken and refreshToken are not empty and
\* expiresAt is positive.
IsValidRecord(r) ==
  r # Null /\ r.accessToken # 0 /\ r.refreshToken # 0 /\ r.expiresAt > 0

\* C12: every record getTokens returns is valid.
C12_ReturnedRecordsValid ==
  \A a \in Callers :
    (Done(a) /\ loc[a].op = "getTokens" /\ loc[a].result.kind = "record") =>
       IsValidRecord(loc[a].result.rec)


\* The step in which the storeTokens call of caller a, which ran alone, returns or throws.
StoreReturnsAlone(a) ==
  /\ a \in Callers /\ loc[a].op = "storeTokens"
  /\ pc[a] = "st_done" /\ pc'[a] = "idle"
  /\ overlap[a] = {} /\ Busy(a) = {}

\* C13: when storeTokens, called alone with a valid record, returns, the cache holds
\* the record and so does the keychain or the fallback file; the file is written
\* only when the keychain is not available or its write failed, and storeTokens
\* throws only when the write of the fallback file failed.
C13_StoredInCacheAndOneBackend ==
  [][\A a \in Callers : StoreReturnsAlone(a) =>
        LET tokenData == tokenDataOf(loc'[a].arg) IN
        /\ inMemoryTokens' = tokenData
        /\ loc'[a].result = VoidResult =>
              \/ loc'[a].persisted = "keychain" /\ keychain' = tokenData
              \/ loc'[a].persisted = "file" /\ tokenFile' = tokenData
        /\ loc'[a].persisted = "file" => ~useKeytar' \/ faults' > 0
        /\ loc'[a].result # VoidResult =>
              /\ loc'[a].result = ErrorResult("EACCES: permission denied")
              /\ loc'[a].persisted = ""]_vars

\* storeTokens returned after the write of the keychain failed and the record went to
\* the fallback file.
C13_FellBackToFile ==
  \E a \in Callers :
    /\ Done(a) /\ loc[a].op = "storeTokens" /\ loc[a].result = VoidResult
    /\ useKeytar /\ faults = 1 /\ calls = 1
    /\ loc[a].persisted = "file"
    /\ inMemoryTokens = tokenDataOf(loc[a].arg)
    /\ tokenFile = inMemoryTokens /\ keychain # inMemoryTokens


\* C14: a getTokens, storeTokens (of a valid record) or clearTokens call during which
\* at most one keychain or file operation failed does not throw.
C14_BackendFailureNotFatal ==
  \A a \in Callers :
    ( /\ Done(a) /\ faults <= 1
      /\ \/ loc[a].op \in {"getTokens", "clearTokens"}
         \/ loc[a].op = "storeTokens" /\ storeTokensMessage(loc[a].arg) = "" )
    => loc[a].result.kind # "error"

\* Caller a stored a valid record and then caller b called getTokens; these are the
\* only calls made, and b's began after a's had returned.
StoredThenGot(a, b) ==
  /\ a \in Callers /\ b \in Callers /\ a < b /\ calls = 2
  /\ Done(a) /\ loc[a].op = "storeTokens" /\ storeTokensMessage(loc[a].arg) = ""
  /\ Done(b) /\ loc[b].op = "getTokens"
  /\ overlap[a] = {} /\ overlap[b] = {}

C16_StoreClearAgree ==
  \A a, b \in Callers :
    ( /\ a # b /\ Done(a) /\ Done(b) /\ calls = 2 /\ faults = 0
      /\ loc[a].op = "storeTokens" /\ storeTokensMessage(loc[a].arg) = ""
      /\ loc[b].op = "clearTokens"
      /\ b \in overlap[a] )
    => LET r == tokenDataOf(loc[a].arg) IN
       \/ inMemoryTokens = r /\ (IF useKeytar THEN keychain = r ELSE tokenFile = r)
       \/ inMemoryTokens = NoData /\ keychain = NoData /\ tokenFile = NoData


\* C17: clearTokens never throws, and at the step in which it returns the cache is
\* empty, whether or not the purges of the keychain and of the fallback file failed.
C17_ClearNeverThrows ==
  [][\A a \in Callers :
        (loc[a].op = "clearTokens" /\ pc[a] # "idle" /\ pc'[a] = "idle") =>
           /\ inMemoryTokens' = NoData
           /\ loc'[a].result = VoidResult]_vars

\* clearTokens returned after a purge failed and emptied a cache that held a record.
C17_ClearedDespiteFailure ==
  \E a \in Callers :
    /\ Done(a) /\ loc[a].op = "clearTokens" /\ loc[a].result = VoidResult
    /\ loc[a].purgeFail # {}
    /\ "memory" \in loc[a].wrote
    /\ inMemoryTokens = NoData

\* C18: clearTokens reports to its caller that credentials remain when the
\* environment supplies a valid record.
C18_ClearReportsRemaining ==
  \A a \in Callers :
    (Done(a) /\ loc[a].op = "clearTokens" /\ getTokensFromEnv(env) # Null) =>
       loc[a].result # VoidResult


\* C19: once storeTokens(r), r valid, has returned, and as long as no operation has
\* failed and no clearTokens and no other storeTokens has run, getTokens answers with
\* r (its defaults filled in) and not with the record of the environment.
C19_StoredRecordPrevails ==
  \A a \in Callers :
    ( /\ Done(a) /\ loc[a].op = "storeTokens" /\ storeTokensMessage(loc[a].arg) = ""
      /\ loc[a].result = VoidResult
      /\ calls <= 2 /\ faults = 0
      /\ \A b \in Callers \ {a} :
            /\ pc[b] = "idle" /\ loc[b].op \in {"", "getTokens"}
            /\ loc[b].purged = {} /\ loc[b].purgeFail = {} )
    => FirstValidRecord = normalizeTokens(loc[a].arg)


\* The server has handled a request on the callback path.
OnCallbackPath == served > 0 /\ httpReq.path = "/callback"

\* C20 as stated: on the callback path an error parameter that is present gives the
\* provider error; else a code that is absent gives the missing-code error; else a
\* state that is absent or differs from the session's gives the CSRF error; else
\* the request succeeds with its code and state.
C20_ChecksByPresence ==
  OnCallbackPath =>
    httpRes = IF httpReq.error.present
              THEN Rejection("OAuth error: " \o (IF Truthy(httpReq.error_description)
                                                 THEN httpReq.error_description.value
                                                 ELSE httpReq.error.value))
              ELSE IF ~httpReq.code.present
              THEN Rejection("Missing authorization code in callback")
              ELSE IF ~httpReq.state.present \/ httpReq.state.value # expectedState
              THEN Rejection("State validation failed. Possible CSRF attack.")
              ELSE Success(httpReq.code.value, httpReq.state.value)

\* C20: on the callback path the checks are applied in this order, an empty parameter
\* counting as an absent one: an error parameter gives the provider error, whatever
\* the code and the state; else a missing code gives the missing-code error,
\* whatever the state; else a state that is missing or differs from the session's
\* gives the CSRF error; else the request succeeds with its code and state.
C20_ChecksInOrder ==
  OnCallbackPath =>
    /\ Truthy(httpReq.error) =>
          /\ httpRes.status = 400 /\ httpRes.settle = "reject"
          /\ httpRes.message = "OAuth error: " \o (IF Truthy(httpReq.error_description)
                                                   THEN httpReq.error_description.value
                                                   ELSE httpReq.error.value)
    /\ (~Truthy(httpReq.error) /\ ~Truthy(httpReq.code)) =>
          httpRes = Rejection("Missing authorization code in callback")
    /\ ( /\ ~Truthy(httpReq.error) /\ Truthy(httpReq.code)
         /\ (~Truthy(httpReq.state) \/ httpReq.state.value # expectedState) ) =>
          httpRes = Rejection("State validation failed. Possible CSRF attack.")
    /\ ( /\ ~Truthy(httpReq.error) /\ Truthy(httpReq.code)
         /\ Truthy(httpReq.state) /\ httpReq.state.value = expectedState ) =>
          httpRes = Success(httpReq.code.value, httpReq.state.value)
    /\ (served = 1 /\ httpRes.settle = "reject") =>
          callback = [state |-> "rejected", code |-> "", cbstate |-> "",
                      message |-> httpRes.message]

\* A request with an error parameter and a valid code and state was rejected with the
\* provider error.
C20_ErrorBeforeCode ==
  /\ OnCallbackPath /\ served = 1
  /\ Truthy(httpReq.error)
  /\ httpReq.code = Param("c1") /\ httpReq.state = Param(expectedState)
  /\ callback.state = "rejected"
  /\ callback.message = "OAuth error: access_denied"

\* C21: the listener never succeeds for a request whose state parameter is absent
\* or differs from the state of the session, whatever its code: such a request is
\* not answered with the success page and does not resolve the promise, and a
\* resolved promise carries the state of the session.
C21_NoSuccessWithoutSessionState ==
  /\ ( /\ served > 0
       /\ (~httpReq.state.present \/ httpReq.state.value # expectedState) ) =>
        /\ httpRes.status # 200
        /\ httpRes.settle # "resolve"
        /\ (served = 1 => callback.state # "resolved")
  /\ callback.state = "resolved" => callback.cbstate = expectedState

\* A request on the callback path with a code and the state of another session was
\* rejected with the CSRF error.
C21_ForeignStateRejected ==
  /\ OnCallbackPath /\ served = 1
  /\ ~Truthy(httpReq.error)
  /\ httpReq.code = Param("c1") /\ httpReq.state = Param("s2")
  /\ httpRes.status = 400
  /\ callback.state = "rejected"
  /\ callback.message = "State validation failed. Possible CSRF attack."

\* C22 as stated: the manual-input branch accepts a pasted redirect URL only when
\* the state of the URL equals the state of the session, and accepts without a
\* comparison of states only a bare code.
C22_PastedUrlNeedsSessionState ==
  manual.state = "resolved" =>
    \/ /\ manual.raw.scheme = "" /\ manual.raw.pairs = <<>>
       /\ manual.code = manual.raw.text
    \/ /\ manual.raw.scheme # ""
       /\ SearchParamsGet(manual.raw.pairs, "state") = Param(expectedState)

\* The branch whose promise the login of caller a took, once it has resumed.
Taken(a) == IF loc[a].won = "manual" THEN manual ELSE callback
LoginOf(a) == a \in Callers /\ loc[a].op \in {"authenticate", "reAuthenticate"}

ListenCalls == IF server = "none" THEN 0 ELSE 1

\* C24 as stated: when the bind of the primary port fails with address-in-use the
\* listener goes on to a fallback port, so it fails with that error only after a
\* further listen.
C24_FallbackPortTried ==
  (server = "failed" /\ callback.message = "Port is already in use") => ListenCalls > 1

\* C25: when the timeout fires the listener fails with the timeout error and stops
\* listening, and this is what happens when no request for the callback path
\* arrives; hence the promise of waitForCallback, once pending, is eventually
\* settled.
C25_TimeoutSettles ==
  /\ [](timeoutId = "fired" =>
          /\ server = "closed"
          /\ callback.state = "rejected"
          /\ callback.message = "OAuth callback timed out. Please try again.")
  /\ [](timeoutId = "cleared" => Settled(callback))
  /\ (callback.state = "pending") ~> Settled(callback)

\* The timeout fired on a listener that had only been asked for another path: the
\* promise is rejected with the timeout error and the server is closed.
C25_TimedOutWithoutCallback ==
  /\ served > 0 /\ httpReq.path # "/callback" /\ httpRes.status = 404
  /\ timeoutId = "fired" /\ server = "closed"
  /\ callback.state = "rejected"
  /\ callback.message = "OAuth callback timed out. Please try again."

\* The login of caller a went on with the result of the manual-input branch.
ManualWon(a) == LoginOf(a) /\ loc[a].won = "manual" /\ manual.state = "resolved"

\* C26 as stated: once the login has gone on with a manual input that resolved
\* before the listener, the listener is aborted: its server no longer listens and
\* its timeout is no longer awaited.
C26_ListenerAbortedAfterManualInput ==
  \A a \in Callers :
    ManualWon(a) =>
      /\ aborted
      /\ server \notin {"starting", "listening"}
      /\ timeoutId # "armed"

\* The login of caller a raced the two branches and has gone on to the exchange.
RacedAndWentOn(a) ==
  /\ LoginOf(a) /\ loc[a].options.manualCodeInput /\ ~loc[a].options.openBrowser
  /\ loc[a].won # "" /\ loc[a].code # ""

\* C27 as stated: a login that raced the listener against the manual input
\* exchanges the code of the branch that completed first, and the other branch is
\* cancelled: after the manual input won the server no longer listens and its
\* timeout is no longer awaited, and after the listener won the manual prompt is
\* no longer open.
C27_LoserOfRaceCancelled ==
  \A a \in Callers :
    RacedAndWentOn(a) =>
      /\ Taken(a).state = "resolved" /\ loc[a].code = Taken(a).code
      /\ loc[a].won = "manual" =>
            server \notin {"starting", "listening"} /\ timeoutId # "armed"
      /\ loc[a].won = "listener" => manual.state # "prompting"

\* C28 as stated: after a login that failed, the cache, the keychain entry and the
\* fallback file are what they were when the login began.
C28_FailedLoginWritesNothing ==
  \A a \in Callers :
    (Done(a) /\ LoginOf(a) /\ loc[a].result.kind = "error") =>
      <<inMemoryTokens, keychain, tokenFile>> = loc[a].before

\* C29 as stated, for a process without credentials in its environment and without
\* failing keychain or file operations: once a logout has completed, and as long as
\* no record is stored by a new login, the cache, the keychain entry and the
\* fallback file hold no record and getTokens has nothing to return, whatever else
\* was in progress when the logout ran.
C29_NoCredentialsAfterLogout ==
  \A a \in Callers :
    ( /\ Done(a) /\ loc[a].op = "clearTokens"
      /\ \A b \in Callers : loc[b].op # "storeTokens"
      /\ faults = 0 /\ getTokensFromEnv(env) = Null ) =>
        /\ inMemoryTokens = NoData /\ keychain = NoData /\ tokenFile = NoData
        /\ FirstValidRecord = Null

\* What a backend holds after the reAuthenticate of caller a if it does not hold the
\* previous record: nothing, or the record of the new login.
NewOrNone(a) ==
  {NoData} \cup (IF loc[a].arg = Null THEN {} ELSE {tokenDataOf(loc[a].arg)})

\* C30 as stated: after reAuthenticate the cache, the keychain entry and the
\* fallback file hold the new record or no record, never the previous one.
C30_NeverThePreviousRecord ==
  \A a \in Callers :
    (Done(a) /\ loc[a].op = "reAuthenticate") =>
      /\ inMemoryTokens \in NewOrNone(a)
      /\ keychain \in NewOrNone(a)
      /\ tokenFile \in NewOrNone(a)

\* C30: reAuthenticate starts the login only after clearTokens of logout() has
\* run to its end, and from then on the cache holds the new record or no record,
\* and so do the keychain entry and the fallback file unless logout's purge of that
\* backend failed.
C30_LogoutThenLogin ==
  \A a \in Callers :
    (loc[a].op = "reAuthenticate" /\ (server # "none" \/ Done(a))) =>
      /\ "memory" \in loc[a].purged
      /\ pc[a] \notin {"ct_deletePassword", "ct_unlink", "ct_unlink_done"}
      /\ inMemoryTokens \in NewOrNone(a)
      /\ keychain \in NewOrNone(a) \/ "keychain" \in loc[a].purgeFail
      /\ tokenFile \in NewOrNone(a) \/ "file" \in loc[a].purgeFail

\* A reAuthenticate whose logout removed the previous record and whose login timed
\* out: the store is empty.
C30_PreviousGoneAfterFailedLogin ==
  \E a \in Callers :
    /\ Done(a) /\ loc[a].op = "reAuthenticate"
    /\ loc[a].wrote # {} /\ loc[a].purgeFail = {}
    /\ loc[a].result = ErrorResult("OAuth callback timed out. Please try again.")
    /\ inMemoryTokens = NoData /\ keychain = NoData /\ tokenFile = NoData

\* C31: revokeToken never throws: every call that has ended has returned, and when
\* the request failed or the response was not 2xx it logged a warning.
C31_RevokeNeverThrows ==
  \A i \in 1..Len(revocations) :
    /\ revocations[i].pc \in {"fetch", "returned"}
    /\ (revocations[i].pc = "returned" /\ ~revocations[i].resp.ok) =>
          revocations[i].log \in {"warn: Token revocation failed",
                                  "warn: Token revocation error"}

\* A revocation answered with 503 and one whose request failed have both returned.
C31_FailuresReturned ==
  /\ Len(revocations) = 2
  /\ revocations[1].pc = "returned" /\ revocations[1].resp = RevokeResponse(TRUE, 503)
  /\ revocations[2].pc = "returned" /\ ~revocations[2].resp.transport

\* C32 as stated: the branch name handed to the git step is the branch name Linear
\* suggests for the issue, whatever the parameters of the call.
C32_LinearBranchNameUsed ==
  issueStart.handed # "" => issueStart.handed = issueStart.branchName

\* C40: the state change to the started state is sent only once the git branch step
\* has succeeded, and at most once; a call whose branch step failed has sent none.
C40_StateChangeOnlyAfterGitStep ==
  /\ issueStart.stateChanges \in {0, 1}
  /\ issueStart.stateChanges = 1 <=> issueStart.git[1] # ""
  /\ issueStart.stateChanges = 1 => issueStart.pc \in {"set_state", "returned", "thrown"}

\* C40 witness: the branch step was started and failed in git checkout -b, and the
\* call has ended without a state change.
C40_BranchStepFailed ==
  /\ issueStart.pc = "thrown"
  /\ issueStart.error = "git checkout -b failed"
  /\ issueStart.checkout # ""
  /\ issueStart.stateChanges = 0

\* C33 as stated: under any sequence of refreshTokens and resetRefreshManager calls
\* at most one refresh is in flight, and a refresh that ends changes the lock only
\* if the lock holds its own handle.
C33_CleanupReleasesOwnLock ==
  /\ [](Cardinality(InFlight) <= 1)
  /\ [][\A p \in Flights : (pc[p] # "settled" /\ pc'[p] = "settled" /\ manager' # manager)
                              => manager.refreshPromise = p]_vars

\* storeTokens(r) of caller a, r valid, returned without error; then (callers make
\* their first calls in order), with the cache empty, caller b called getTokens, and
\* none of its reads failed.  These are the only calls made.
StoredThenColdGot(a, b) ==
  /\ a < b /\ Done(a) /\ Done(b) /\ calls = 2
  /\ loc[a].op = "storeTokens" /\ storeTokensMessage(loc[a].arg) = ""
  /\ loc[a].result = VoidResult
  /\ loc[b].op = "getTokens"
  /\ overlap[a] = {} /\ overlap[b] = {}
  /\ loc[b].src # "memory" /\ ~loc[b].readFail

\* C34 as stated: with no environment credentials, getTokens called with an empty
\* cache after storeTokens(r) returned successfully returns r.
C34_ColdGetReturnsStored ==
  \A a, b \in Callers :
    StoredThenColdGot(a, b) => loc[b].result = RecordResult(normalizeTokens(loc[a].arg))

\* getValidAccessToken of caller a refreshed and the refresh it started was rejected
\* with invalid_grant; then (callers make their first calls in order) caller b called
\* getValidAccessToken.  These are the only calls made, and no login in between.
RejectedThenCalled(a, b) ==
  /\ a < b /\ Done(a) /\ Done(b) /\ calls = 2
  /\ loc[a].op = "getValidAccessToken" /\ loc[b].op = "getValidAccessToken"
  /\ overlap[a] = {} /\ overlap[b] = {}
  /\ loc[a].awaited # 0
  /\ promise[loc[a].awaited].state = "rejected"
  /\ IncludesInvalidGrant(promise[loc[a].awaited].err)

\* C35 as stated: after a refresh token was rejected with invalid_grant and the store
\* purged, a later getValidAccessToken makes no refresh request, and the rejected
\* token is not sent to the token endpoint a second time.
C35_RejectedTokenNotSentAgain ==
  \A a, b \in Callers :
    RejectedThenCalled(a, b) =>
      /\ loc[b].awaited = 0
      /\ Len(requests) = 1

\* isAuthenticated of caller a and getAccessToken of caller b got the same record from
\* getTokens and read the same time.
SameRecordSameTime(a, b) ==
  /\ Done(a) /\ loc[a].op = "hasValidTokens"
  /\ Done(b) /\ loc[b].op = "getValidAccessToken"
  /\ loc[a].got # Null /\ loc[a].got = loc[b].got
  /\ loc[a].nowRead = loc[b].nowRead

\* C36 as stated: for a record and a time, isAuthenticated() is true exactly when
\* getAccessToken() returns the stored access token without refreshing, which is
\* exactly when now < expiresAt - 60000; with no record, isAuthenticated() is false
\* and getAccessToken() returns null.
C36_AuthenticatedIffNoRefresh ==
  /\ \A a, b \in Callers :
        SameRecordSameTime(a, b) =>
          /\ loc[a].result = BoolResult(TRUE)
                <=> (~loc[b].expired /\ loc[b].result = TokenResult(loc[b].got.accessToken))
          /\ loc[a].result = BoolResult(loc[a].nowRead < loc[a].got.expiresAt - 60000)
  /\ \A a \in Callers :
        (Done(a) /\ loc[a].got = Null) =>
          /\ loc[a].op = "hasValidTokens" => loc[a].result = BoolResult(FALSE)
          /\ loc[a].op = "getValidAccessToken" => loc[a].result = NullResult

\* C39 as stated: getAccessToken() never throws; whatever the store holds, whichever
\* backend operation fails and whatever the token endpoint answers, it returns an
\* access token or null.
C39_GetAccessTokenNeverThrows ==
  \A a \in Callers :
    (Done(a) /\ loc[a].op = "getValidAccessToken") => loc[a].result.kind \in {"token", "null"}

\* C37: once the promise of waitForCallback is settled no step changes it; a request
\* on the callback path handled while the promise is pending settles it with the
\* outcome of that request; a request on another path leaves the promise, the server
\* and the timer as they are.
C37_DecidedOnceByFirstCallback ==
  [][ /\ callback.state \in {"resolved", "rejected"} => callback' = callback
      /\ (served' # served /\ httpReq'.path = "/callback" /\ callback.state = "pending")
            => /\ callback'.state = (IF httpRes'.settle = "resolve" THEN "resolved" ELSE "rejected")
               /\ callback'.code = httpRes'.code
               /\ callback'.message = httpRes'.message
      /\ (served' # served /\ httpReq'.path # "/callback")
            => UNCHANGED <<callback, server, timeoutId>> ]_vars

\* C37 witness: after a success, during the delay before the server closes, a second
\* request on the callback path carried an error or another code, and the result is
\* still that of the first.
C37_LaterRequestIgnored ==
  /\ served >= 2
  /\ httpReq.path = "/callback"
  /\ callback.state = "resolved"
  /\ \/ httpRes.settle = "reject"
     \/ httpRes.settle = "resolve" /\ httpRes.code # callback.code

\* The step in which caller a calls storeTokens with a record the validation rejects.
StoresInvalid(a) ==
  /\ pc[a] = "idle" /\ calls' = calls + 1
  /\ \A b \in Callers \ {a} : pc'[b] = pc[b] /\ loc'[b] = loc[b]
  /\ loc'[a].op = "storeTokens"
  /\ \/ loc'[a].arg.accessToken = 0
     \/ loc'[a].arg.refreshToken = 0
     \/ loc'[a].arg.expiresAt = 0
     \/ ~TypeofNumber(loc'[a].arg.expiresAt)

\* C38: storeTokens called with a record that lacks accessToken, refreshToken or a
\* numeric expiresAt throws before its first write: the call ends with an Error and
\* the cache, the keychain entry and the fallback file are as they were.
C38_InvalidRecordRejected ==
  [][\A a \in Callers : StoresInvalid(a) =>
        /\ pc'[a] = "idle"
        /\ loc'[a].result.kind = "error"
        /\ UNCHANGED <<inMemoryTokens, keychain, tokenFile>>]_vars

\* C38 witness: a record whose expiresAt is a string was rejected while the store held
\* a record written by an earlier storeTokens, which is still there.
C38_StringExpiryRejected ==
  \E a \in Callers :
    /\ Done(a) /\ loc[a].op = "storeTokens"
    /\ ~TypeofNumber(loc[a].arg.expiresAt)
    /\ loc[a].result = ErrorResult("Missing or invalid expiresAt in token record")
    /\ loc[a].before = <<inMemoryTokens, keychain, tokenFile>>
    /\ inMemoryTokens # NoData

====
